---- MODULE Spec2Model ----
(***************************************************************************)
(* A model of the storefront backend of liew807/winwin8: the dual-backend  *)
(* persistence layer (PostgreSQL tables / one JSON document on disk) and   *)
(* the JSON routes in front of it.                                         *)
(*                                                                         *)
(* The repository holds four revisions of the same server:                 *)
(*   "server" = src/server.js                                              *)
(*   "p000"   = src/unnamed/part_000                                       *)
(*   "p001"   = src/unnamed/part_001                                       *)
(*   "p002"   = src/unnamed/part_002                                       *)
(* The variable rev says which revision the process runs; it never         *)
(* changes, and every operation follows the code of that revision.         *)
(*                                                                         *)
(* Granularity.  Node runs one callback at a time, so an async function is *)
(* atomic between two awaits.  A request is modelled by one step per       *)
(* storage access: the first step is the arrival of the request, the       *)
(* synchronous validation in the route, the test of useDatabase and the    *)
(* first storage access (file read or SQL statement); a file mutation has  *)
(* a second step, the continuation after readFileData: the mutation of the *)
(* loaded copy, the test of useDatabase in saveFileData, the full-file     *)
(* write and the response.                                                 *)
(***************************************************************************)
EXTENDS Integers, Sequences, FiniteSets, TLC

(* ------------------------------ bounds --------------------------------- *)
\* Requests a run issues.
MaxReq == 3
\* Date.now() takes the values 1..MaxClock.
MaxClock == 2
\* Requests in flight at one time, when the clients do not wait.
MaxClients == 2

(* --------------------------- JavaScript values ------------------------- *)
\* Every JavaScript value is a tagged record, so that values of different
\* types can be compared; a JavaScript object is a function from the names
\* of the fields it has to their values.
Undef == [t |-> "undef"]
Null == [t |-> "null"]
NaN == [t |-> "nan"]
Num(n) == [t |-> "num", n |-> n]
Str(s) == [t |-> "str", s |-> s]
Bool(b) == [t |-> "bool", b |-> b]
\* A timestamp taken from the clock (new Date(), CURRENT_TIMESTAMP).
Time(n) == [t |-> "time", at |-> n]
\* The string node-postgres returns for a DECIMAL(10, 2) column holding n.
Dec(n) == [t |-> "decimal", d |-> n]
\* A bcrypt hash of the plaintext p (the salt is not modelled).
Hash(p) == [t |-> "bcrypt", of |-> p]
Obj(o) == [t |-> "obj", o |-> o]
List(l) == [t |-> "list", l |-> l]

\* The empty object {}.
EmptyObj == [f \in {} |-> Undef]

\* o.f : undefined when the object has no such field.
Get(o, f) == IF f \in DOMAIN o THEN o[f] ELSE Undef

\* ToBoolean: undefined, null, NaN, false, 0 and "" are falsy.
Truthy(v) ==
    CASE v.t = "undef" -> FALSE
      [] v.t = "null" -> FALSE
      [] v.t = "nan" -> FALSE
      [] v.t = "bool" -> v.b
      [] v.t = "num" -> v.n # 0
      [] v.t = "str" -> v.s # ""
      [] OTHER -> TRUE

\* a || b
Or(a, b) == IF Truthy(a) THEN a ELSE b

\* { ...a, ...b }
Spread(a, b) == b @@ a

\* The object o without the field f (const { f: _, ...rest } = o).
Without(o, f) == [g \in DOMAIN o \ {f} |-> o[g]]

\* The numeric strings the requests of the model use, with their values.
NumericStr ==
    [s \in {"1", "2", "3", "4", "7", "9"} |->
        CASE s = "1" -> 1 [] s = "2" -> 2 [] s = "3" -> 3 [] s = "4" -> 4
          [] s = "7" -> 7 [] s = "9" -> 9]

\* parseFloat(v): a number is itself, a numeric string its value, anything
\* else NaN.
parseFloat(v) ==
    CASE v.t = "num" -> v
      [] v.t = "str" /\ v.s \in DOMAIN NumericStr -> Num(NumericStr[v.s])
      [] OTHER -> NaN

\* isNaN(v) for a value parseFloat returned.
isNaN(v) == v.t = "nan"

\* a == b for the values the model compares loosely (an id with a route
\* parameter): values of one type are compared as they are, a number and
\* a string as numbers; undefined equals no number and no string.
LooseEq(a, b) ==
    IF a.t = b.t THEN a = b
    ELSE /\ {a.t, b.t} = {"num", "str"}
         /\ ~isNaN(parseFloat(a))
         /\ ~isNaN(parseFloat(b))
         /\ parseFloat(a) = parseFloat(b)

\* JSON.stringify drops the fields whose value is undefined, so the file
\* and a response never hold one.
Json(o) == [f \in {g \in DOMAIN o : o[g] # Undef} |-> o[f]]

\* bcrypt.compareSync(password, stored): true only for a hash of password.
compareSync(password, stored) ==
    /\ stored.t = "bcrypt"
    /\ password.t = "str"
    /\ stored.of = password.s

\* A hashSync that hands the password back as it is.
hashSyncSkipped(password) == password

\* bcrypt.hashSync(password, 10)
hashSync(password) == Hash(password.s)

(* ------------------------------ state ---------------------------------- *)
VARIABLES
    rev,          \* the revision the process runs
    dbUrl,        \* process.env.DATABASE_URL is set
    dbUp,         \* the database accepts the connection of the startup test
    useDatabase,  \* the module-level flag every data-access function tests
    connTest,     \* the startup test query: "none", "pending", "done"
    initPc,       \* where initializeDatabaseTables / initDB stands
    listening,    \* app.listen has been called
    fileExists,   \* the data file exists
    file,         \* the JSON document in the data file
    db,           \* the PostgreSQL tables
    clock,        \* Date.now()
    clients,      \* how many requests the clients keep in flight at most
    reqs          \* the requests issued so far, in order of arrival

vars == <<rev, dbUrl, dbUp, useDatabase, connTest, initPc, listening,
          fileExists, file, db, clock, clients, reqs>>

Revs == {"server", "p000", "p001", "p002"}

\* The revisions whose backend flag is set by the callback of a test query
\* (server.js 45-55); part_001 sets it synchronously (part_001 21-30).
AsyncSelect == {"server", "p000", "p002"}

(* --------------------------- baked-in values --------------------------- *)
\* 'CPMCY商城', the default store name.
DefaultStoreName == Str("CPMCY")
\* 'https://v.kuaishou.com/JGv00n48'
DefaultLink == Str("https://v.kuaishou.com/JGv00n48")
\* 'FB账号GH Tree'
DefaultContact == Str("FB GH Tree")
\* '欢迎选购！点击购买扫码完成付款'
DefaultWelcome == Str("welcome")
\* 'https://via.placeholder.com/300x200?text=商品'
Placeholder == Str("https://via.placeholder.com/300x200")

(* ----------------------------- the data file --------------------------- *)
\* The settings object of a new data file.
fileDefaultSettings ==
    [storeName |-> DefaultStoreName, kuaishouLink |-> DefaultLink,
     contactInfo |-> DefaultContact, welcomeMessage |-> DefaultWelcome]

\* The admin user of a new data file.  part_002 and part_001 add id and
\* is_admin.
fileAdmin(r) ==
    IF r \in {"server", "p000"}
    THEN [username |-> Str("admin"), password |-> hashSync(Str("admin123")),
          isAdmin |-> Bool(TRUE)]
    ELSE [id |-> Num(1), username |-> Str("admin"),
          password |-> hashSync(Str("admin123")),
          isAdmin |-> Bool(TRUE), is_admin |-> Bool(TRUE)]

\* One of the two sample products part_001 puts in a new data file.
sampleProduct(n, now) ==
    [id |-> Num(n), name |-> Str(IF n = 1 THEN "sample1" ELSE "sample2"),
     price |-> Num(IF n = 1 THEN 99 ELSE 199),
     description |-> Str("sample"), image_url |-> Placeholder,
     image |-> Placeholder, created_at |-> Time(now), createdAt |-> Time(now)]

\* initialData of ensureDataDir; defaultData of part_001's getFileData.
initialData(r, now) ==
    IF r = "p001"
    THEN [users |-> <<fileAdmin(r)>>,
          products |-> <<sampleProduct(1, now), sampleProduct(2, now)>>,
          orders |-> <<>>,
          settings |-> fileDefaultSettings]
    ELSE [users |-> <<fileAdmin(r)>>,
          products |-> <<>>,
          orders |-> <<>>,
          settings |-> fileDefaultSettings,
          lastUpdated |-> Time(now)]

\* The document before the data file exists.
NoFile == [users |-> <<>>, products |-> <<>>, orders |-> <<>>,
           settings |-> EmptyObj]

\* ensureDataDir: the file after it ran (created when it did not exist).
ensureDataDir(r, exists, doc, now) ==
    IF exists THEN doc ELSE initialData(r, now)

\* saveFileData stamps data.lastUpdated before it writes; part_001 does not.
stamped(r, data, now) ==
    IF r = "p001" THEN data
    ELSE [f \in DOMAIN data \cup {"lastUpdated"} |->
            IF f = "lastUpdated" THEN Time(now) ELSE data[f]]

(* --------------------------- the PostgreSQL store ---------------------- *)
TableNames == {"users", "products", "orders", "settings"}

\* A database in which no table has been created.
EmptyDb ==
    [tables |-> {}, users |-> <<>>, products |-> <<>>, orders |-> <<>>,
     settings |-> <<>>, serial |-> [t \in TableNames |-> 0]]

\* The outcome of a statement: err (it was rejected), the rows it returns
\* and the database after it.
Failed(d) == [err |-> TRUE, rows |-> <<>>, db |-> d]
Done(d, rows) == [err |-> FALSE, rows |-> rows, db |-> d]

\* node-postgres sends undefined as NULL.
SqlNull(v) == v.t \in {"undef", "null"}

\* The value a DECIMAL(10, 2) column takes from a parameter, NaN when the
\* parameter is no number.
ToDecimal(v) == IF isNaN(parseFloat(v)) THEN NaN ELSE Dec(parseFloat(v).n)

\* The sequence s with x appended at the end.
Push(s, x) == Append(s, x)

\* CREATE TABLE IF NOT EXISTS t
createTable(d, t) == [d EXCEPT !.tables = @ \cup {t}]

\* The database after nextval of table t's id sequence.
Bump(d, t) == [d EXCEPT !.serial[t] = @ + 1]

\* An INSERT INTO users on a table whose username column is not UNIQUE.
insertUserNotUnique(r, d, username, password, is_admin, now) ==
    LET row == [id |-> Num(d.serial["users"] + 1), username |-> username,
                password |-> password, is_admin |-> Bool(is_admin),
                created_at |-> Time(now)]
                @@ (IF r = "p001" THEN EmptyObj ELSE [last_login |-> Null])
    IN  IF "users" \notin d.tables THEN Failed(d)
        ELSE Done([Bump(d, "users") EXCEPT !.users = Push(@, row)], <<row>>)

\* An insertUser that stores every user with the admin flag set.
insertUserAsAdmin(r, d, username, password, is_admin, now) ==
    LET row == [id |-> Num(d.serial["users"] + 1), username |-> username,
                password |-> password, is_admin |-> Bool(TRUE),
                created_at |-> Time(now)]
                @@ (IF r = "p001" THEN EmptyObj ELSE [last_login |-> Null])
    IN  IF "users" \notin d.tables THEN Failed(d)
        ELSE IF \/ SqlNull(username)
                \/ SqlNull(password)
                \/ \E i \in 1..Len(d.users) : d.users[i].username = username
             THEN Failed(Bump(d, "users"))
             ELSE Done([Bump(d, "users") EXCEPT !.users = Push(@, row)],
                       <<row>>)

\* INSERT INTO users (username, password, is_admin) VALUES ($1, $2, $3)
\* RETURNING * : username is UNIQUE NOT NULL, password NOT NULL.  The
\* table of part_001 has no last_login column.
insertUser(r, d, username, password, is_admin, now) ==
    LET row == [id |-> Num(d.serial["users"] + 1), username |-> username,
                password |-> password, is_admin |-> Bool(is_admin),
                created_at |-> Time(now)]
                @@ (IF r = "p001" THEN EmptyObj ELSE [last_login |-> Null])
    IN  IF "users" \notin d.tables THEN Failed(d)
        ELSE IF \/ SqlNull(username)
                \/ SqlNull(password)
                \/ \E i \in 1..Len(d.users) : d.users[i].username = username
             THEN Failed(Bump(d, "users"))
             ELSE Done([Bump(d, "users") EXCEPT !.users = Push(@, row)],
                       <<row>>)

\* SELECT * FROM users WHERE username = $1
selectUser(d, username) ==
    IF "users" \notin d.tables THEN Failed(d)
    ELSE Done(d, SelectSeq(d.users, LAMBDA u : u.username = username))

\* INSERT INTO products (name, price, description, image_url) VALUES (...)
\* RETURNING * : name and price are NOT NULL, price is DECIMAL(10, 2).
\* The table of part_001 has no updated_at column.
insertProduct(r, d, name, price, description, image_url, now) ==
    LET row == [id |-> Num(d.serial["products"] + 1), name |-> name,
                price |-> ToDecimal(price), description |-> description,
                image_url |-> image_url, created_at |-> Time(now)]
                @@ (IF r = "p001" THEN EmptyObj
                    ELSE [updated_at |-> Time(now)])
    IN  IF "products" \notin d.tables THEN Failed(d)
        ELSE IF SqlNull(name) \/ SqlNull(price) \/ isNaN(ToDecimal(price))
             THEN Failed(Bump(d, "products"))
             ELSE Done([Bump(d, "products") EXCEPT !.products = Push(@, row)],
                       <<row>>)

\* The rows of s, the latest created_at first.  Rows of one timestamp keep
\* the order of their insertion.
RECURSIVE orderByCreatedDesc(_)
orderByCreatedDesc(s) ==
    IF s = <<>> THEN <<>>
    ELSE LET latest == CHOOSE i \in 1..Len(s) :
                          /\ \A j \in 1..Len(s) :
                                s[j].created_at.at <= s[i].created_at.at
                          /\ \A j \in 1..(i - 1) :
                                s[j].created_at.at < s[i].created_at.at
             rest == [j \in 1..(Len(s) - 1) |->
                        IF j < latest THEN s[j] ELSE s[j + 1]]
         IN  <<s[latest]>> \o orderByCreatedDesc(rest)

\* SELECT * FROM products ORDER BY created_at DESC
selectProducts(d) ==
    IF "products" \notin d.tables THEN Failed(d)
    ELSE Done(d, orderByCreatedDesc(d.products))

\* An id parameter compared with the INTEGER id column: a row matches when
\* the parameter denotes its number.
SameId(row, id) == parseFloat(id) = row.id

\* DELETE FROM products WHERE id = $1 RETURNING * : a parameter that is no
\* integer is rejected.
deleteProductRow(d, id) ==
    IF "products" \notin d.tables \/ isNaN(parseFloat(id)) THEN Failed(d)
    ELSE Done([d EXCEPT !.products =
                    SelectSeq(@, LAMBDA p : ~SameId(p, id))],
              SelectSeq(d.products, LAMBDA p : SameId(p, id)))

\* SELECT COUNT(*) FROM users WHERE username = 'admin' (part_001: SELECT *)
countAdmin(d) ==
    Len(SelectSeq(d.users, LAMBDA u : u.username = Str("admin")))

\* A settings check that never finds a row.
countSettingsZero(d) == 0

\* SELECT COUNT(*) FROM settings
countSettings(d) == Len(d.settings)

\* INSERT INTO settings (store_name, kuaishou_link, contact_info,
\* welcome_message) VALUES (...) RETURNING * : every column is nullable.
\* The table of part_001 has no updated_at column.
insertSettings(r, d, store_name, kuaishou_link, contact_info, welcome_message, now) ==
    LET row == [id |-> Num(d.serial["settings"] + 1),
                store_name |-> store_name, kuaishou_link |-> kuaishou_link,
                contact_info |-> contact_info,
                welcome_message |-> welcome_message]
                @@ (IF r = "p001" THEN EmptyObj
                    ELSE [updated_at |-> Time(now)])
    IN  IF "settings" \notin d.tables THEN Failed(d)
        ELSE Done([Bump(d, "settings") EXCEPT !.settings = Push(@, row)],
                  <<row>>)

\* The value an INTEGER column takes from a parameter: NULL stays NULL, a
\* number or a numeric string is its number, anything else is Undef (the
\* statement is rejected).
ToInteger(v) ==
    IF SqlNull(v) THEN Null
    ELSE IF isNaN(parseFloat(v)) THEN Undef ELSE parseFloat(v)

\* status VARCHAR(20): the longest status the orders table takes.
StatusWidth == 20

\* A value does not fit the status column: a string longer than the
\* column.
TooLongForStatus(v) == v.t = "str" /\ Len(v.s) > StatusWidth

\* INSERT INTO orders (order_number, user_id, product_id, product_name,
\* product_price, total_amount, payment_method, status) VALUES (...)
\* RETURNING * : order_number is UNIQUE NOT NULL, user_id and product_id
\* are INTEGER, product_name, product_price and total_amount are NOT
\* NULL, status is VARCHAR(20).  The table of part_001 has no updated_at
\* column.  p is the sequence of the eight parameters.
insertOrder(r, d, p, now) ==
    LET row == [id |-> Num(d.serial["orders"] + 1), order_number |-> p[1],
                user_id |-> ToInteger(p[2]), product_id |-> ToInteger(p[3]),
                product_name |-> p[4], product_price |-> ToDecimal(p[5]),
                total_amount |-> ToDecimal(p[6]),
                payment_method |-> IF SqlNull(p[7]) THEN Null ELSE p[7],
                status |-> IF SqlNull(p[8]) THEN Null ELSE p[8],
                created_at |-> Time(now)]
                @@ (IF r = "p001" THEN EmptyObj
                    ELSE [updated_at |-> Time(now)])
    IN  IF "orders" \notin d.tables THEN Failed(d)
        ELSE IF \/ ToInteger(p[2]) = Undef
                \/ ToInteger(p[3]) = Undef
                \/ (~SqlNull(p[5]) /\ isNaN(ToDecimal(p[5])))
                \/ (~SqlNull(p[6]) /\ isNaN(ToDecimal(p[6])))
                \/ TooLongForStatus(p[8])
             THEN Failed(d)
             ELSE IF \/ SqlNull(p[1]) \/ SqlNull(p[4]) \/ SqlNull(p[5])
                     \/ SqlNull(p[6])
                     \/ \E i \in 1..Len(d.orders) :
                            d.orders[i].order_number = p[1]
                  THEN Failed(Bump(d, "orders"))
                  ELSE Done([Bump(d, "orders") EXCEPT
                                !.orders = Push(@, row)], <<row>>)

\* SELECT * FROM orders ORDER BY created_at DESC
selectOrders(d) ==
    IF "orders" \notin d.tables THEN Failed(d)
    ELSE Done(d, orderByCreatedDesc(d.orders))

\* UPDATE orders SET status = $1 [, updated_at = CURRENT_TIMESTAMP] WHERE
\* id = $2 RETURNING * : an id that is no integer and a status longer than
\* the column are rejected.
updateOrderRow(r, d, status, id, now) ==
    LET set(row) ==
            IF ~SameId(row, id) THEN row
            ELSE IF r = "p001"
                 THEN [row EXCEPT
                        !.status = IF SqlNull(status) THEN Null ELSE status]
                 ELSE [row EXCEPT
                        !.status = IF SqlNull(status) THEN Null ELSE status,
                        !.updated_at = Time(now)]
    IN  IF \/ "orders" \notin d.tables
           \/ isNaN(parseFloat(id))
           \/ TooLongForStatus(status)
        THEN Failed(d)
        ELSE Done([d EXCEPT !.orders =
                        [i \in 1..Len(d.orders) |-> set(d.orders[i])]],
                  SelectSeq([i \in 1..Len(d.orders) |-> set(d.orders[i])],
                            LAMBDA row : SameId(row, id)))

(* ------------------------------- startup ------------------------------- *)
\* The steps of initializeDatabaseTables / initDB, in order: "tables" is
\* the four CREATE TABLE IF NOT EXISTS statements (they touch nothing a
\* request can tell apart from one statement), then one step per
\* statement.  part_001 ends with the seeding of two sample products.
InitSteps(r) ==
    <<"tables", "adminCheck", "adminInsert", "settingsCheck",
      "settingsInsert">>
    \o (IF r = "p001" THEN <<"productsCheck", "productsInsert">> ELSE <<>>)

\* The state once the module's top-level code and the synchronous part of
\* startServer() have run: server.js leaves useDatabase false and a test
\* query pending when DATABASE_URL is set; part_001 sets useDatabase at
\* once and startServer has issued the first statement of initDB.
Init ==
    /\ rev \in Revs
    /\ dbUrl \in BOOLEAN
    /\ dbUp \in (IF dbUrl THEN BOOLEAN ELSE {FALSE})
    /\ useDatabase = (rev = "p001" /\ dbUrl)
    /\ connTest = IF rev \in AsyncSelect /\ dbUrl THEN "pending" ELSE "none"
    /\ initPc = IF rev = "p001" /\ dbUrl THEN "tables" ELSE "idle"
    /\ listening = FALSE
    /\ fileExists = FALSE
    /\ file = NoFile
    /\ db = EmptyDb
    /\ clock = 1
    /\ clients \in {1, MaxClients}
    /\ reqs = <<>>

\* Time passes.
Tick ==
    /\ clock < MaxClock
    /\ clock' = clock + 1
    /\ UNCHANGED <<rev, dbUrl, dbUp, useDatabase, connTest, initPc, listening,
                   fileExists, file, db, clients, reqs>>

\* The callback of pool.query('SELECT NOW()'): it sets the backend flag
\* and, on success, starts initializeDatabaseTables.
ConnTestCallback ==
    /\ connTest = "pending"
    /\ connTest' = "done"
    /\ useDatabase' = dbUp
    /\ initPc' = IF dbUp THEN "tables" ELSE initPc
    /\ UNCHANGED <<rev, dbUrl, dbUp, listening, fileExists, file, db, clock,
                   clients, reqs>>

\* startServer.  server.js: useDatabase is still false when it is tested,
\* so the data file is ensured, then the server listens.  part_001: the
\* server listens once initDB has returned (at once without a database).
StartServer ==
    /\ ~listening
    /\ IF rev \in AsyncSelect
       THEN /\ file' = ensureDataDir(rev, fileExists, file, clock)
            /\ fileExists' = TRUE
       ELSE /\ useDatabase => initPc = "done"
            /\ UNCHANGED <<file, fileExists>>
    /\ listening' = TRUE
    /\ UNCHANGED <<rev, dbUrl, dbUp, useDatabase, connTest, initPc, db, clock,
                   clients, reqs>>

\* The process is stopped and started again, which takes time: the
\* module's top-level code and startServer() run anew, the database and
\* the data file are as the last run left them.
Restart ==
    /\ \A i \in 1..Len(reqs) : reqs[i].pc = "done"
    /\ connTest # "pending"
    /\ initPc \in {"idle", "done"}
    /\ clock < MaxClock
    /\ clock' = clock + 1
    /\ useDatabase' = (rev = "p001" /\ dbUrl)
    /\ connTest' = IF rev \in AsyncSelect /\ dbUrl THEN "pending" ELSE "none"
    /\ initPc' = IF rev = "p001" /\ dbUrl THEN "tables" ELSE "idle"
    /\ listening' = FALSE
    /\ UNCHANGED <<rev, dbUrl, dbUp, fileExists, file, db, clients, reqs>>

\* The step after step pc of InitSteps, "done" after the last.
NextInitStep(r, pc) ==
    LET i == CHOOSE k \in 1..Len(InitSteps(r)) : InitSteps(r)[k] = pc
    IN  IF i = Len(InitSteps(r)) THEN "done" ELSE InitSteps(r)[i + 1]

\* The effect of one statement of initializeDatabaseTables on the
\* database, and the step that follows it.  A check that finds the row
\* skips the insert after it.
InitStatement(r, d, pc, now) ==
    CASE pc = "tables" ->
            [db |-> createTable(createTable(createTable(createTable(d,
                        "users"), "products"), "orders"), "settings"),
             pc |-> NextInitStep(r, pc)]
      [] pc = "adminCheck" ->
            [db |-> d,
             pc |-> IF countAdmin(d) = 0 THEN "adminInsert"
                    ELSE "settingsCheck"]
      [] pc = "adminInsert" ->
            [db |-> insertUser(r, d, Str("admin"), hashSync(Str("admin123")),
                               TRUE, now).db,
             pc |-> "settingsCheck"]
      [] pc = "settingsCheck" ->
            [db |-> d,
             pc |-> IF countSettings(d) = 0 THEN "settingsInsert"
                    ELSE NextInitStep(r, "settingsInsert")]
      [] pc = "settingsInsert" ->
            [db |-> insertSettings(r, d, DefaultStoreName, DefaultLink,
                                   DefaultContact, DefaultWelcome, now).db,
             pc |-> NextInitStep(r, pc)]
      [] pc = "productsCheck" ->
            [db |-> d,
             pc |-> IF Len(d.products) = 0 THEN "productsInsert" ELSE "done"]
      [] pc = "productsInsert" ->
            [db |-> insertProduct(r,
                        insertProduct(r, d, Str("sample1"), Num(99),
                                      Str("sample"), Placeholder, now).db,
                        Str("sample2"), Num(199), Str("sample"), Placeholder,
                        now).db,
             pc |-> "done"]

\* One statement of initializeDatabaseTables / initDB.  When the database
\* is down the statement throws and the catch ends the function.
InitDbStep ==
    /\ initPc \notin {"idle", "done"}
    /\ IF dbUp
       THEN /\ db' = InitStatement(rev, db, initPc, clock).db
            /\ initPc' = InitStatement(rev, db, initPc, clock).pc
       ELSE /\ initPc' = "done"
            /\ UNCHANGED db
    /\ UNCHANGED <<rev, dbUrl, dbUp, useDatabase, connTest, listening,
                   fileExists, file, clock, clients, reqs>>

(* ------------------------------ requests ------------------------------- *)
\* No response sent yet.
NoResp == [status |-> 0, body |-> EmptyObj]

\* res.status(status).json(body); res.json(body) sends status 200.
Resp(status, body) == [status |-> status, body |-> Json(body)]

\* A request: the route (op), its parameters and body (arg), where its
\* handler stands (pc: "loaded" after readFileData, "existing" after the
\* getSettings of updateSettings, "done" once the response is sent), the
\* backend its data-access function chose ("none" when the route answered
\* without one), the document it loaded, what the data-access function
\* returned to the route (ret) and the response (res).
Req(op, arg, pc, backend, data, ret, res) ==
    [op |-> op, arg |-> arg, pc |-> pc, backend |-> backend, data |-> data,
     ret |-> ret, res |-> res]

InFlight == {i \in 1..Len(reqs) : reqs[i].pc # "done"}

\* A new request can arrive.
CanArrive ==
    /\ listening
    /\ Len(reqs) < MaxReq
    /\ Cardinality(InFlight) < clients

\* The backend a data-access function that starts now dispatches to.
Backend == IF useDatabase THEN "db" ELSE "file"

\* The outcome of a statement: every statement fails while the database
\* is down.
Query(result) == IF dbUp THEN result ELSE Failed(db)

\* readFileData / getFileData: the document the read returns; the file is
\* created first when it does not exist.
readFileData == ensureDataDir(rev, fileExists, file, clock)

\* A Finish in which the route sends nothing: the request stays open.
FinishWithoutAnswer(i, ret, res) ==
    reqs' = [reqs EXCEPT ![i].ret = ret]

\* The data-access function of request i returns ret, the route answers
\* res and the request is over.
Finish(i, ret, res) ==
    reqs' = [reqs EXCEPT ![i].pc = "done", ![i].ret = ret, ![i].res = res]

(* ------------------------------- users --------------------------------- *)
\* An authenticatedRow that reads the admin flag under its camelCase name
\* only, which no row of the users table has.
authenticatedRowCamelOnly(r, user) ==
    [id |-> user.id, username |-> user.username,
     isAdmin |-> Or(Get(user, "isAdmin"), Bool(FALSE)),
     is_admin |-> Or(Get(user, "isAdmin"), Bool(FALSE)),
     createdAt |-> Get(user, "created_at")]

\* The user a successful authenticateUser returns from the row of the
\* users table.  part_001 leaves the password out.
authenticatedRow(r, user) ==
    IF r = "p001"
    THEN [id |-> user.id, username |-> user.username,
          isAdmin |-> Get(user, "is_admin"), is_admin |-> Get(user, "is_admin"),
          createdAt |-> Get(user, "created_at")]
    ELSE [id |-> user.id, username |-> user.username,
          password |-> user.password,
          isAdmin |-> Or(Or(Get(user, "is_admin"), Get(user, "isAdmin")),
                         Bool(FALSE)),
          is_admin |-> Or(Or(Get(user, "is_admin"), Get(user, "isAdmin")),
                          Bool(FALSE)),
          createdAt |-> Or(Get(user, "created_at"), Get(user, "createdAt")),
          lastLogin |-> Or(Get(user, "last_login"), Get(user, "lastLogin"))]

\* The user a successful authenticateUser returns from the record of the
\* data file.
authenticatedRecord(r, user) ==
    IF r = "p001"
    THEN [id |-> Get(user, "id"), username |-> Get(user, "username"),
          isAdmin |-> Or(Get(user, "isAdmin"), Get(user, "is_admin")),
          is_admin |-> Or(Get(user, "isAdmin"), Get(user, "is_admin"))]
    ELSE Spread(user,
                [isAdmin |-> Or(Or(Get(user, "isAdmin"),
                                   Get(user, "is_admin")), Bool(FALSE)),
                 is_admin |-> Or(Or(Get(user, "isAdmin"),
                                    Get(user, "is_admin")), Bool(FALSE))])

\* authenticateUser on the relational backend, given the outcome q of
\* SELECT * FROM users WHERE username = $1: Null for a failed statement,
\* no row or a wrong password.
authenticateUserDb(r, q, password) ==
    IF q.err \/ Len(q.rows) = 0 THEN Null
    ELSE IF ~compareSync(password, q.rows[1].password) THEN Null
         ELSE Obj(authenticatedRow(r, q.rows[1]))

\* The first user of the document with this username (Array.find).
findUser(data, username) ==
    SelectSeq(data.users, LAMBDA u : Get(u, "username") = username)

\* An authenticateUser on the file backend that returns the user it found
\* without comparing the password.
authenticateUserFileNoCompare(r, data, username, password) ==
    IF findUser(data, username) = <<>> THEN Null
    ELSE Obj(authenticatedRecord(r, findUser(data, username)[1]))

\* authenticateUser on the file backend.
authenticateUserFile(r, data, username, password) ==
    IF findUser(data, username) = <<>> THEN Null
    ELSE IF ~compareSync(password, Get(findUser(data, username)[1], "password"))
         THEN Null
         ELSE Obj(authenticatedRecord(r, findUser(data, username)[1]))

\* The response of POST /api/login to what authenticateUser returned.
\* part_001 answers a failed login with status 200.
loginResponse(r, user) ==
    IF user = Null
    THEN IF r = "p001"
         THEN Resp(200, [success |-> Bool(FALSE), error |-> Str("badLogin"),
                         message |-> Str("hint: admin / admin123")])
         ELSE IF r = "p002"
         THEN Resp(401, [success |-> Bool(FALSE), error |-> Str("badLogin"),
                         tips |-> Str("hint: admin / admin123")])
         ELSE Resp(401, [success |-> Bool(FALSE), error |-> Str("badLogin")])
    ELSE IF r = "p001"
         THEN Resp(200,
                [success |-> Bool(TRUE),
                 data |-> Obj(Json(
                    [id |-> Get(user.o, "id"),
                     username |-> Get(user.o, "username"),
                     isAdmin |-> Or(Get(user.o, "isAdmin"),
                                    Get(user.o, "is_admin")),
                     is_admin |-> Or(Get(user.o, "isAdmin"),
                                     Get(user.o, "is_admin"))])),
                 message |-> Str("loginOk")])
         ELSE Resp(200,
                [success |-> Bool(TRUE),
                 data |-> Obj(Json(
                    [id |-> Get(user.o, "id"),
                     username |-> Get(user.o, "username"),
                     isAdmin |-> Or(Or(Get(user.o, "isAdmin"),
                                       Get(user.o, "is_admin")), Bool(FALSE)),
                     createdAt |-> Or(Get(user.o, "createdAt"),
                                      Get(user.o, "created_at")),
                     lastLogin |-> Or(Get(user.o, "lastLogin"),
                                      Get(user.o, "last_login"))])),
                 message |-> Str("loginOk")])

\* The route's own check of the credentials, before authenticateUser is
\* called: part_002 refuses a missing username or password.
loginRejects(r, username, password) ==
    r = "p002" /\ (~Truthy(username) \/ ~Truthy(password))

\* POST /api/login {username, password}: authenticateUser reads the users
\* and the route answers.
PostLogin(username, password) ==
    /\ CanArrive
    /\ LET arg == [username |-> username, password |-> password]
           user == IF useDatabase
                   THEN authenticateUserDb(rev,
                            Query(selectUser(db, username)), password)
                   ELSE authenticateUserFile(rev, readFileData, username,
                                             password)
       IN  IF loginRejects(rev, username, password)
           THEN /\ reqs' = Append(reqs, Req("login", arg, "done", "none",
                        NoFile, Undef,
                        Resp(400, [success |-> Bool(FALSE),
                                   error |-> Str("credentialsRequired")])))
                /\ UNCHANGED <<file, fileExists>>
           ELSE /\ reqs' = Append(reqs, Req("login", arg, "done", Backend,
                        NoFile, user, loginResponse(rev, user)))
                /\ IF useDatabase
                   THEN UNCHANGED <<file, fileExists>>
                   ELSE file' = readFileData /\ fileExists' = TRUE
    /\ UNCHANGED <<rev, dbUrl, dbUp, useDatabase, connTest, initPc, listening,
                   db, clock, clients>>

\* What registerUser returns on the relational backend, given the outcome
\* q of the INSERT: Null when the statement failed.  part_001 leaves the
\* password out.
registerUserDb(r, q) ==
    IF q.err THEN Null
    ELSE IF r = "p001"
         THEN Obj([id |-> q.rows[1].id, username |-> q.rows[1].username,
                   isAdmin |-> Bool(FALSE), is_admin |-> Bool(FALSE)])
         ELSE Obj([id |-> q.rows[1].id, username |-> q.rows[1].username,
                   password |-> q.rows[1].password,
                   isAdmin |-> Or(q.rows[1].is_admin, Bool(FALSE)),
                   is_admin |-> Or(q.rows[1].is_admin, Bool(FALSE))])

\* A userExists that finds no user.
userExistsNever(data, username) == FALSE

\* data.users.some(u => u.username === username)
userExists(data, username) ==
    \E i \in 1..Len(data.users) : Get(data.users[i], "username") = username

\* A newUser that stores no admin flag.
newUserNoFlag(r, username, hashedPassword, now) ==
    IF r = "p001"
    THEN [id |-> Num(now), username |-> username,
          password |-> hashedPassword]
    ELSE [username |-> username, password |-> hashedPassword]

\* The record registerUser adds to the document.  part_001 gives it an id.
newUser(r, username, hashedPassword, now) ==
    IF r = "p001"
    THEN [id |-> Num(now), username |-> username,
          password |-> hashedPassword, isAdmin |-> Bool(FALSE),
          is_admin |-> Bool(FALSE)]
    ELSE [username |-> username, password |-> hashedPassword,
          isAdmin |-> Bool(FALSE), is_admin |-> Bool(FALSE)]

\* A registerResponse that sends the user as registerUser returned it.
registerResponseWhole(r, user) ==
    IF user = Null
    THEN Resp(400, [success |-> Bool(FALSE), error |-> Str("usernameExists")])
    ELSE Resp(200, [success |-> Bool(TRUE), data |-> Obj(Json(user.o)),
                    message |-> Str("registerOk")])

\* The response of POST /api/register to what registerUser returned.
registerResponse(r, user) ==
    IF user = Null
    THEN Resp(IF r = "p001" THEN 200 ELSE 400,
              [success |-> Bool(FALSE), error |-> Str("usernameExists")])
    ELSE IF r = "p001"
         THEN Resp(200,
                [success |-> Bool(TRUE),
                 data |-> Obj(Json([id |-> Get(user.o, "id"),
                                    username |-> Get(user.o, "username"),
                                    isAdmin |-> Get(user.o, "isAdmin"),
                                    is_admin |-> Get(user.o, "is_admin")]))])
         ELSE Resp(200,
                [success |-> Bool(TRUE),
                 data |-> Obj(Json(
                    Spread(Without(user.o, "password"),
                           [isAdmin |-> Or(Get(user.o, "isAdmin"),
                                           Bool(FALSE))]))),
                 message |-> Str("registerOk")])

\* The route's own check of the password, before registerUser is called:
\* server.js rejects a password shorter than 6; part_001 has no check.
PasswordTooShort(r, password) == r # "p001" /\ Len(password.s) < 6

\* saveFileData(data): the file after it.  Nothing is written when the
\* backend flag is set by now.
saveFileData(data) ==
    IF useDatabase THEN file ELSE stamped(rev, data, clock)

\* POST /api/register {username, password}, up to the first storage
\* access: the INSERT on the relational backend, readFileData and the
\* test for an existing username on the file backend.
PostRegister(username, password) ==
    /\ CanArrive
    /\ LET arg == [username |-> username, password |-> password]
           q == Query(insertUser(rev, db, username, hashSync(password),
                                 FALSE, clock))
       IN  IF PasswordTooShort(rev, password)
           THEN /\ reqs' = Append(reqs, Req("register", arg, "done", "none",
                        NoFile, Undef,
                        Resp(400, [success |-> Bool(FALSE),
                                   error |-> Str("passwordTooShort")])))
                /\ UNCHANGED <<db, file, fileExists>>
           ELSE IF useDatabase
           THEN /\ reqs' = Append(reqs, Req("register", arg, "done", "db",
                        NoFile, registerUserDb(rev, q),
                        registerResponse(rev, registerUserDb(rev, q))))
                /\ db' = q.db
                /\ UNCHANGED <<file, fileExists>>
           ELSE /\ reqs' = Append(reqs,
                        IF userExists(readFileData, username)
                        THEN Req("register", arg, "done", "file", NoFile,
                                 Null, registerResponse(rev, Null))
                        ELSE Req("register", arg, "loaded", "file",
                                 readFileData, Undef, NoResp))
                /\ file' = readFileData
                /\ fileExists' = TRUE
                /\ UNCHANGED db
    /\ UNCHANGED <<rev, dbUrl, dbUp, useDatabase, connTest, initPc, listening,
                   clock, clients>>

\* registerUser after readFileData, on the file backend: the new user is
\* pushed on the loaded document, the document is saved and the route
\* answers with the new user.
RegisterSave(i) ==
    /\ i \in InFlight
    /\ reqs[i].op = "register"
    /\ reqs[i].pc = "loaded"
    /\ LET user == newUser(rev, reqs[i].arg.username,
                           hashSync(reqs[i].arg.password), clock)
           data == [reqs[i].data EXCEPT !.users = Push(@, Json(user))]
       IN  /\ file' = saveFileData(data)
           /\ Finish(i, Obj(user), registerResponse(rev, Obj(user)))
    /\ UNCHANGED <<rev, dbUrl, dbUp, useDatabase, connTest, initPc, listening,
                   fileExists, db, clock, clients>>

(* ------------------------------ products ------------------------------- *)
\* A compatProduct that returns the camelCase names only.
compatProductCamelOnly(row) ==
    [id |-> Get(row, "id"), name |-> Get(row, "name"),
     price |-> Get(row, "price"), description |-> Get(row, "description"),
     image |-> Get(row, "image_url"), createdAt |-> Get(row, "created_at")]

\* The product as getProducts and addProduct of part_001 return a row.
compatProduct(row) ==
    [id |-> Get(row, "id"), name |-> Get(row, "name"),
     price |-> Get(row, "price"), description |-> Get(row, "description"),
     image |-> Get(row, "image_url"), image_url |-> Get(row, "image_url"),
     createdAt |-> Get(row, "created_at"),
     created_at |-> Get(row, "created_at")]

\* getProducts on the relational backend, given the outcome q of the
\* SELECT: the rows, the empty list when the statement failed.
getProductsDb(r, q) ==
    IF q.err THEN <<>>
    ELSE IF r = "p001"
         THEN [i \in 1..Len(q.rows) |-> compatProduct(q.rows[i])]
         ELSE q.rows

\* The response of GET /api/products.  server.js sends no message.
productsResponse(r, products) ==
    IF r = "server"
    THEN Resp(200, [success |-> Bool(TRUE), data |-> List(products)])
    ELSE Resp(200, [success |-> Bool(TRUE), data |-> List(products),
                    message |-> Str("productCount")])

\* GET /api/products
GetProducts ==
    /\ CanArrive
    /\ LET products == IF useDatabase
                       THEN getProductsDb(rev, Query(selectProducts(db)))
                       ELSE readFileData.products
       IN  reqs' = Append(reqs, Req("getProducts", EmptyObj, "done", Backend,
                NoFile, List(products), productsResponse(rev, products)))
    /\ IF useDatabase
       THEN UNCHANGED <<file, fileExists>>
       ELSE file' = readFileData /\ fileExists' = TRUE
    /\ UNCHANGED <<rev, dbUrl, dbUp, useDatabase, connTest, initPc, listening,
                   db, clock, clients>>

\* readFileData / getFileData when the data file exists and reading or
\* parsing it fails: what the read returns and the file it leaves.
\* server.js catches the error and returns null; part_001 writes
\* defaultData over the file and returns it.
failedRead(r, doc, now) ==
    IF r = "p001"
    THEN [data |-> Obj(initialData(r, now)), file |-> initialData(r, now)]
    ELSE [data |-> Null, file |-> doc]

\* getProducts on the file backend, given what the read returned: the
\* products, the empty list for null.
getProductsFile(data) == IF data = Null THEN <<>> ELSE data.o.products

\* GET /api/products on the file backend when the data file exists and
\* the read of it fails.
GetProductsReadFails ==
    /\ CanArrive
    /\ ~useDatabase
    /\ fileExists
    /\ LET read == failedRead(rev, file, clock)
       IN  /\ reqs' = Append(reqs, Req("getProducts", EmptyObj, "done",
                    "file", NoFile, List(getProductsFile(read.data)),
                    productsResponse(rev, getProductsFile(read.data))))
           /\ file' = read.file
    /\ UNCHANGED <<rev, dbUrl, dbUp, useDatabase, connTest, initPc, listening,
                   fileExists, db, clock, clients>>

\* The check POST /api/products makes before it calls addProduct: "ok", or
\* the error it answers with status 400.  server.js and part_001 have no
\* check; part_000 wants a truthy name and a truthy price; part_002 also
\* wants parseFloat(price) to be a number.
validateProduct(r, product) ==
    IF r \in {"server", "p001"} THEN "ok"
    ELSE IF ~Truthy(Get(product, "name")) \/ ~Truthy(Get(product, "price"))
         THEN "nameAndPriceRequired"
         ELSE IF r = "p002" /\ isNaN(parseFloat(Get(product, "price")))
              THEN "priceNotNumber"
              ELSE "ok"

\* addProduct of part_002 returns null before any storage access when
\* parseFloat(price) is NaN.
addProductRejects(r, product) ==
    r = "p002" /\ isNaN(parseFloat(Get(product, "price")))

\* The outcome of the INSERT addProduct issues for a product.
addProductInsert(r, d, product, now) ==
    CASE r \in {"server", "p000"} ->
            insertProduct(r, d, Get(product, "name"), Get(product, "price"),
                Or(Get(product, "description"), Str("")),
                Or(Get(product, "image"), Placeholder), now)
      [] r = "p002" ->
            insertProduct(r, d, Get(product, "name"),
                parseFloat(Get(product, "price")),
                Or(Get(product, "description"), Str("")),
                Or(Or(Get(product, "image"), Get(product, "image_url")),
                   Placeholder), now)
      [] r = "p001" ->
            insertProduct(r, d, Or(Get(product, "name"), Str("")),
                Or(parseFloat(Get(product, "price")), Num(0)),
                Or(Get(product, "description"), Str("")),
                Or(Or(Get(product, "image"), Get(product, "image_url")),
                   Placeholder), now)

\* What addProduct returns on the relational backend, given the outcome q
\* of the INSERT.
addProductDb(r, q) ==
    IF q.err THEN Null
    ELSE IF r = "p001" THEN Obj(compatProduct(q.rows[1])) ELSE Obj(q.rows[1])

\* The record addProduct pushes on the document.  server.js and part_000
\* push the request body itself, with an id and createdAt.
newProduct(r, product, now) ==
    CASE r \in {"server", "p000"} ->
            Spread(product, [id |-> Num(now), createdAt |-> Time(now)])
      [] r = "p002" ->
            [id |-> Num(now), name |-> Get(product, "name"),
             price |-> parseFloat(Get(product, "price")),
             description |-> Or(Get(product, "description"), Str("")),
             image |-> Or(Or(Get(product, "image"),
                             Get(product, "image_url")), Placeholder),
             createdAt |-> Time(now)]
      [] r = "p001" ->
            [id |-> Num(now), name |-> Or(Get(product, "name"), Str("")),
             price |-> Or(parseFloat(Get(product, "price")), Num(0)),
             description |-> Or(Get(product, "description"), Str("")),
             image |-> Or(Or(Get(product, "image"),
                             Get(product, "image_url")), Placeholder),
             image_url |-> Or(Or(Get(product, "image"),
                                 Get(product, "image_url")), Placeholder),
             createdAt |-> Time(now), created_at |-> Time(now)]

\* The response of POST /api/products to what addProduct returned.
\* part_001 answers a failure with status 200.
addProductResponse(r, saved) ==
    IF saved # Null
    THEN Resp(200, [success |-> Bool(TRUE), data |-> Obj(Json(saved.o)),
                    message |-> Str("productAdded")])
    ELSE IF r = "p002"
         THEN Resp(500, [success |-> Bool(FALSE),
                         error |-> Str("addProductFailed"),
                         details |-> Str("database or data format")])
         ELSE Resp(IF r = "p001" THEN 200 ELSE 500,
                   [success |-> Bool(FALSE),
                    error |-> Str("addProductFailed")])

\* The response of POST /api/products to a body its check refuses.
\* part_002 echoes what it received.
invalidProductResponse(r, product, why) ==
    IF r = "p002"
    THEN Resp(400, [success |-> Bool(FALSE), error |-> Str(why),
                    received |-> IF why = "priceNotNumber"
                                 THEN Get(product, "price")
                                 ELSE Obj(product)])
    ELSE Resp(400, [success |-> Bool(FALSE), error |-> Str(why)])

\* POST /api/products {name, price, description?, image?}, up to the
\* first storage access.
PostProducts(product) ==
    /\ CanArrive
    /\ LET q == Query(addProductInsert(rev, db, product, clock))
       IN  IF validateProduct(rev, product) # "ok"
           THEN /\ reqs' = Append(reqs, Req("addProduct", product, "done",
                        "none", NoFile, Undef,
                        invalidProductResponse(rev, product,
                            validateProduct(rev, product))))
                /\ UNCHANGED <<db, file, fileExists>>
           ELSE IF useDatabase
           THEN IF addProductRejects(rev, product)
                THEN /\ reqs' = Append(reqs, Req("addProduct", product,
                            "done", "db", NoFile, Null,
                            addProductResponse(rev, Null)))
                     /\ UNCHANGED <<db, file, fileExists>>
                ELSE /\ reqs' = Append(reqs, Req("addProduct", product,
                            "done", "db", NoFile, addProductDb(rev, q),
                            addProductResponse(rev, addProductDb(rev, q))))
                     /\ db' = q.db
                     /\ UNCHANGED <<file, fileExists>>
           ELSE /\ reqs' = Append(reqs, Req("addProduct", product, "loaded",
                        "file", readFileData, Undef, NoResp))
                /\ file' = readFileData
                /\ fileExists' = TRUE
                /\ UNCHANGED db
    /\ UNCHANGED <<rev, dbUrl, dbUp, useDatabase, connTest, initPc, listening,
                   clock, clients>>

\* addProduct after readFileData, on the file backend: the product is
\* pushed on the loaded document, the document is saved and the route
\* answers with the product.
AddProductSave(i) ==
    /\ i \in InFlight
    /\ reqs[i].op = "addProduct"
    /\ reqs[i].pc = "loaded"
    /\ LET product == newProduct(rev, reqs[i].arg, clock)
           data == [reqs[i].data EXCEPT !.products = Push(@, Json(product))]
       IN  IF addProductRejects(rev, reqs[i].arg)
           THEN /\ Finish(i, Null, addProductResponse(rev, Null))
                /\ UNCHANGED file
           ELSE /\ file' = saveFileData(data)
                /\ Finish(i, Obj(product),
                          addProductResponse(rev, Obj(product)))
    /\ UNCHANGED <<rev, dbUrl, dbUp, useDatabase, connTest, initPc, listening,
                   fileExists, db, clock, clients>>

\* data.products.findIndex(p => p.id == productId): 0 when there is none
\* (the code's -1).
findIndex(products, productId) ==
    IF \E i \in 1..Len(products) : LooseEq(Get(products[i], "id"), productId)
    THEN CHOOSE i \in 1..Len(products) :
            /\ LooseEq(Get(products[i], "id"), productId)
            /\ \A j \in 1..(i - 1) :
                  ~LooseEq(Get(products[j], "id"), productId)
    ELSE 0

\* products.splice(index, 1)
splice(products, index) ==
    [j \in 1..(Len(products) - 1) |->
        IF j < index THEN products[j] ELSE products[j + 1]]

\* The response of DELETE /api/products/:id to what deleteProduct
\* returned.  part_001 does not look at it.
deleteProductResponse(r, success) ==
    IF r = "p001"
    THEN Resp(200, [success |-> Bool(TRUE), message |-> Str("productDeleted")])
    ELSE IF success
         THEN Resp(200, [success |-> Bool(TRUE),
                         message |-> Str("productDeleted")])
         ELSE Resp(404, [success |-> Bool(FALSE),
                         error |-> Str("productNotFound")])

\* What deleteProduct returns on the relational backend, given the outcome
\* q of the DELETE.  server.js: whether a row was deleted, false when the
\* statement failed.  part_001: true unless the statement failed.
deleteProductDb(r, q) ==
    IF r = "p001" THEN ~q.err ELSE (~q.err /\ Len(q.rows) > 0)

\* DELETE /api/products/:id, up to the first storage access.  On the
\* file backend server.js returns false at once when no product has the
\* id; part_001 goes on to filter and save in every case.
DeleteProduct(id) ==
    /\ CanArrive
    /\ LET arg == [id |-> id]
           q == Query(deleteProductRow(db, id))
       IN  IF useDatabase
           THEN /\ reqs' = Append(reqs, Req("deleteProduct", arg, "done",
                        "db", NoFile, Bool(deleteProductDb(rev, q)),
                        deleteProductResponse(rev, deleteProductDb(rev, q))))
                /\ db' = q.db
                /\ UNCHANGED <<file, fileExists>>
           ELSE /\ reqs' = Append(reqs,
                        IF rev # "p001"
                           /\ findIndex(readFileData.products, id) = 0
                        THEN Req("deleteProduct", arg, "done", "file", NoFile,
                                 Bool(FALSE),
                                 deleteProductResponse(rev, FALSE))
                        ELSE Req("deleteProduct", arg, "loaded", "file",
                                 readFileData, Undef, NoResp))
                /\ file' = readFileData
                /\ fileExists' = TRUE
                /\ UNCHANGED db
    /\ UNCHANGED <<rev, dbUrl, dbUp, useDatabase, connTest, initPc, listening,
                   clock, clients>>

\* deleteProduct after readFileData, on the file backend: the product is
\* removed from the loaded document, the document is saved and
\* deleteProduct returns true.
DeleteProductSave(i) ==
    /\ i \in InFlight
    /\ reqs[i].op = "deleteProduct"
    /\ reqs[i].pc = "loaded"
    /\ LET products == reqs[i].data.products
           id == reqs[i].arg.id
           data == [reqs[i].data EXCEPT !.products =
                      IF rev = "p001"
                      THEN SelectSeq(products,
                                  LAMBDA p : ~LooseEq(Get(p, "id"), id))
                      ELSE splice(products, findIndex(products, id))]
       IN  /\ file' = saveFileData(data)
           /\ Finish(i, Bool(TRUE), deleteProductResponse(rev, TRUE))
    /\ UNCHANGED <<rev, dbUrl, dbUp, useDatabase, connTest, initPc, listening,
                   fileExists, db, clock, clients>>

(* ------------------------------ settings ------------------------------- *)
\* SELECT * FROM settings ORDER BY id LIMIT 1 (rows are kept in id order)
selectSettings(d) ==
    IF "settings" \notin d.tables THEN Failed(d)
    ELSE Done(d, SubSeq(d.settings, 1, IF Len(d.settings) > 0 THEN 1 ELSE 0))

\* getSettings on the relational backend, given the outcome q of the
\* SELECT.  server.js: the row, null without a row or on an error.
\* part_001: the row, {} without a row or on an error.
getSettingsDb(r, q) ==
    IF ~q.err /\ Len(q.rows) > 0 THEN Obj(q.rows[1])
    ELSE IF r = "p001" THEN Obj(EmptyObj) ELSE Null

\* getSettings on the file backend.
getSettingsFile(r, data) == Obj(data.settings)

\* The response of GET /api/settings to what getSettings returned.
\* server.js falls back to '' for three of the fields of a stored record
\* and to the full defaults only without a record; part_001 falls back to
\* the default of each field.
settingsResponse(r, settings) ==
    IF settings = Null
    THEN Resp(200, [success |-> Bool(TRUE),
                    data |-> Obj(fileDefaultSettings)])
    ELSE Resp(200,
            [success |-> Bool(TRUE),
             data |-> Obj(
                [storeName |->
                    Or(Or(Get(settings.o, "store_name"),
                          Get(settings.o, "storeName")), DefaultStoreName),
                 kuaishouLink |->
                    Or(Or(Get(settings.o, "kuaishou_link"),
                          Get(settings.o, "kuaishouLink")),
                       IF r = "p001" THEN DefaultLink ELSE Str("")),
                 contactInfo |->
                    Or(Or(Get(settings.o, "contact_info"),
                          Get(settings.o, "contactInfo")),
                       IF r = "p001" THEN DefaultContact ELSE Str("")),
                 welcomeMessage |->
                    Or(Or(Get(settings.o, "welcome_message"),
                          Get(settings.o, "welcomeMessage")),
                       IF r = "p001" THEN DefaultWelcome ELSE Str(""))])])

\* GET /api/settings
GetSettings ==
    /\ CanArrive
    /\ LET settings == IF useDatabase
                       THEN getSettingsDb(rev, Query(selectSettings(db)))
                       ELSE getSettingsFile(rev, readFileData)
       IN  reqs' = Append(reqs, Req("getSettings", EmptyObj, "done", Backend,
                NoFile, settings, settingsResponse(rev, settings)))
    /\ IF useDatabase
       THEN UNCHANGED <<file, fileExists>>
       ELSE file' = readFileData /\ fileExists' = TRUE
    /\ UNCHANGED <<rev, dbUrl, dbUp, useDatabase, connTest, initPc, listening,
                   db, clock, clients>>

\* UPDATE settings SET store_name = $1, kuaishou_link = $2, contact_info =
\* $3, welcome_message = $4 [, updated_at = CURRENT_TIMESTAMP] RETURNING *:
\* server.js has no WHERE clause, so every row is updated; part_001 updates
\* the row WHERE id = $5.
updateSettingsRows(r, d, existing, settings, now) ==
    LET set(row) ==
            IF r = "p001"
            THEN IF row.id = Get(existing, "id")
                 THEN [row EXCEPT
                        !.store_name = Or(Get(settings, "storeName"),
                                          Get(existing, "store_name")),
                        !.kuaishou_link = Or(Get(settings, "kuaishouLink"),
                                             Get(existing, "kuaishou_link")),
                        !.contact_info = Or(Get(settings, "contactInfo"),
                                            Get(existing, "contact_info")),
                        !.welcome_message = Or(Get(settings, "welcomeMessage"),
                                            Get(existing, "welcome_message"))]
                 ELSE row
            ELSE [row EXCEPT
                    !.store_name = Or(Get(settings, "storeName"),
                                      Get(existing, "store_name")),
                    !.kuaishou_link = Or(Get(settings, "kuaishouLink"),
                                         Get(existing, "kuaishou_link")),
                    !.contact_info = Or(Get(settings, "contactInfo"),
                                        Get(existing, "contact_info")),
                    !.welcome_message = Or(Get(settings, "welcomeMessage"),
                                           Get(existing, "welcome_message")),
                    !.updated_at = Time(now)]
    IN  IF "settings" \notin d.tables THEN Failed(d)
        ELSE Done([d EXCEPT !.settings =
                        [i \in 1..Len(d.settings) |-> set(d.settings[i])]],
                  [i \in 1..Len(d.settings) |-> set(d.settings[i])])

\* The INSERT of updateSettings when getSettings found no record.
updateSettingsInsert(r, d, settings, now) ==
    insertSettings(r, d, Or(Get(settings, "storeName"), DefaultStoreName),
        Or(Get(settings, "kuaishouLink"), Str("")),
        Or(Get(settings, "contactInfo"), Str("")),
        Or(Get(settings, "welcomeMessage"), Str("")), now)

\* part_001 tests existing.id, server.js tests existing.
hasExisting(r, existing) ==
    IF r = "p001" THEN Truthy(Get(existing.o, "id")) ELSE existing # Null

\* What updateSettings returns on the relational backend, given the
\* outcome q of its UPDATE or INSERT.  server.js: the first row returned,
\* null on an error.  part_001: true, false on an error.
updateSettingsDb(r, q) ==
    IF r = "p001" THEN Bool(~q.err)
    ELSE IF q.err THEN Null
         ELSE IF Len(q.rows) > 0 THEN Obj(q.rows[1]) ELSE Undef

\* The response of PUT /api/settings to what updateSettings returned.
\* part_001 does not look at it.
updateSettingsResponse(r, updated) ==
    IF r = "p001" THEN Resp(200, [success |-> Bool(TRUE)])
    ELSE IF Truthy(updated)
         THEN Resp(200, [success |-> Bool(TRUE), data |-> updated,
                         message |-> Str("settingsUpdated")])
         ELSE Resp(500, [success |-> Bool(FALSE),
                         error |-> Str("updateSettingsFailed")])

\* PUT /api/settings {storeName?, kuaishouLink?, contactInfo?,
\* welcomeMessage?}, up to the first storage access: the getSettings of
\* updateSettings on the relational backend, readFileData on the file
\* backend.
PutSettings(settings) ==
    /\ CanArrive
    /\ reqs' = Append(reqs,
            IF useDatabase
            THEN Req("updateSettings", settings, "existing", "db",
                     [NoFile EXCEPT !.settings =
                        getSettingsDb(rev, Query(selectSettings(db)))],
                     Undef, NoResp)
            ELSE Req("updateSettings", settings, "loaded", "file",
                     readFileData, Undef, NoResp))
    /\ IF useDatabase
       THEN UNCHANGED <<file, fileExists>>
       ELSE file' = readFileData /\ fileExists' = TRUE
    /\ UNCHANGED <<rev, dbUrl, dbUp, useDatabase, connTest, initPc, listening,
                   db, clock, clients>>

\* updateSettings after getSettings, on the relational backend: UPDATE
\* when a record was found, INSERT otherwise.
UpdateSettingsDb(i) ==
    /\ i \in InFlight
    /\ reqs[i].op = "updateSettings"
    /\ reqs[i].pc = "existing"
    /\ LET existing == reqs[i].data.settings
           q == Query(IF hasExisting(rev, existing)
                      THEN updateSettingsRows(rev, db, existing.o,
                                              reqs[i].arg, clock)
                      ELSE updateSettingsInsert(rev, db, reqs[i].arg, clock))
       IN  /\ db' = q.db
           /\ Finish(i, updateSettingsDb(rev, q),
                     updateSettingsResponse(rev, updateSettingsDb(rev, q)))
    /\ UNCHANGED <<rev, dbUrl, dbUp, useDatabase, connTest, initPc, listening,
                   fileExists, file, clock, clients>>

\* updateSettings after readFileData, on the file backend: the update is
\* spread over the loaded settings, the document is saved and the merged
\* settings are returned (part_001 returns true).
UpdateSettingsSave(i) ==
    /\ i \in InFlight
    /\ reqs[i].op = "updateSettings"
    /\ reqs[i].pc = "loaded"
    /\ LET data == [reqs[i].data EXCEPT !.settings = Spread(@, reqs[i].arg)]
           ret == IF rev = "p001" THEN Bool(TRUE) ELSE Obj(data.settings)
       IN  /\ file' = saveFileData(data)
           /\ Finish(i, ret, updateSettingsResponse(rev, ret))
    /\ UNCHANGED <<rev, dbUrl, dbUp, useDatabase, connTest, initPc, listening,
                   fileExists, db, clock, clients>>

(* ------------------------------- orders -------------------------------- *)

\* The clock counts milliseconds; toString().slice(-8) keeps the last
\* eight digits of Date.now(), that is Date.now() modulo Wrap, with its
\* leading zeros.
Wrap == 100000000

Zeros == [k \in 0..8 |->
            CASE k = 0 -> "" [] k = 1 -> "0" [] k = 2 -> "00"
              [] k = 3 -> "000" [] k = 4 -> "0000" [] k = 5 -> "00000"
              [] k = 6 -> "000000" [] k = 7 -> "0000000"
              [] k = 8 -> "00000000"]

slice8(now) == Zeros[8 - Len(ToString(now % Wrap))] \o ToString(now % Wrap)

\* 'DD' + Date.now().toString().slice(-8)
orderNumberAt(now) == Str("DD" \o slice8(now))

\* The body POST /api/orders hands to addOrder.  server.js writes an
\* order number into a body that has none; part_001 leaves the body alone
\* (addOrder fills the number in).
orderBody(r, order, now) ==
    IF r # "p001" /\ ~Truthy(Get(order, "orderNumber"))
    THEN Spread(order, [orderNumber |-> orderNumberAt(now)])
    ELSE order

\* The eight parameters of addOrder's INSERT.
addOrderParams(r, order, now) ==
    IF r = "p001"
    THEN << Or(Get(order, "orderNumber"), orderNumberAt(now)),
            Or(Get(order, "userId"), Str("guest")),
            Or(Get(order, "productId"), Num(0)),
            Or(Get(order, "productName"), Str("")),
            Or(Get(order, "productPrice"), Num(0)),
            Or(Get(order, "totalAmount"), Num(0)),
            Or(Get(order, "paymentMethod"), Str("tng")),
            Or(Get(order, "status"), Str("pending")) >>
    ELSE << Get(order, "orderNumber"), Get(order, "userId"),
            Get(order, "productId"), Get(order, "productName"),
            Get(order, "productPrice"), Get(order, "totalAmount"),
            Or(Get(order, "paymentMethod"), Str("tng")),
            Or(Get(order, "status"), Str("pending")) >>

\* What addOrder returns on the relational backend, given the outcome q
\* of the INSERT: the row, null when the statement failed.
addOrderDb(q) == IF q.err THEN Null ELSE Obj(q.rows[1])

\* The record addOrder pushes on the document.  server.js pushes the body
\* itself, with an id and createdAt; part_001 builds a record with a
\* default for every field.
newOrder(r, order, now) ==
    IF r = "p001"
    THEN [id |-> Num(now),
          orderNumber |-> Or(Get(order, "orderNumber"), orderNumberAt(now)),
          userId |-> Or(Get(order, "userId"), Str("guest")),
          productId |-> Or(Get(order, "productId"), Num(0)),
          productName |-> Or(Get(order, "productName"), Str("")),
          productPrice |-> Or(Get(order, "productPrice"), Num(0)),
          totalAmount |-> Or(Get(order, "totalAmount"), Num(0)),
          paymentMethod |-> Or(Get(order, "paymentMethod"), Str("tng")),
          status |-> Or(Get(order, "status"), Str("pending")),
          createdAt |-> Time(now), created_at |-> Time(now)]
    ELSE Spread(order, [id |-> Num(now), createdAt |-> Time(now)])

\* The response of POST /api/orders to what addOrder returned.  part_001
\* answers success whatever addOrder returned.
addOrderResponse(r, saved) ==
    IF r = "p001"
    THEN Resp(200, [success |-> Bool(TRUE),
                    data |-> IF saved = Null THEN Null
                             ELSE Obj(Json(saved.o))])
    ELSE IF saved # Null
         THEN Resp(200, [success |-> Bool(TRUE), data |-> Obj(Json(saved.o)),
                         message |-> Str("orderCreated")])
         ELSE Resp(500, [success |-> Bool(FALSE),
                         error |-> Str("createOrderFailed")])

\* POST /api/orders, up to the first storage access.
PostOrders(order) ==
    /\ CanArrive
    /\ LET body == orderBody(rev, order, clock)
           q == Query(insertOrder(rev, db, addOrderParams(rev, body, clock),
                                  clock))
       IN  IF useDatabase
           THEN /\ reqs' = Append(reqs, Req("addOrder", body, "done", "db",
                        NoFile, addOrderDb(q),
                        addOrderResponse(rev, addOrderDb(q))))
                /\ db' = q.db
                /\ UNCHANGED <<file, fileExists>>
           ELSE /\ reqs' = Append(reqs, Req("addOrder", body, "loaded",
                        "file", readFileData, Undef, NoResp))
                /\ file' = readFileData
                /\ fileExists' = TRUE
                /\ UNCHANGED db
    /\ UNCHANGED <<rev, dbUrl, dbUp, useDatabase, connTest, initPc, listening,
                   clock, clients>>

\* addOrder after readFileData, on the file backend: the order is pushed
\* on the loaded document, the document is saved and the route answers
\* with the order.
AddOrderSave(i) ==
    /\ i \in InFlight
    /\ reqs[i].op = "addOrder"
    /\ reqs[i].pc = "loaded"
    /\ LET order == newOrder(rev, reqs[i].arg, clock)
           data == [reqs[i].data EXCEPT !.orders = Push(@, Json(order))]
       IN  /\ file' = saveFileData(data)
           /\ Finish(i, Obj(order), addOrderResponse(rev, Obj(order)))
    /\ UNCHANGED <<rev, dbUrl, dbUp, useDatabase, connTest, initPc, listening,
                   fileExists, db, clock, clients>>

\* getOrders on the relational backend, given the outcome q of the
\* SELECT: the rows, the empty list when the statement failed.
getOrdersDb(q) == IF q.err THEN <<>> ELSE q.rows

\* The response of GET /api/orders.
ordersResponse(orders) ==
    Resp(200, [success |-> Bool(TRUE), data |-> List(orders)])

\* GET /api/orders: the file backend returns data.orders as stored.
GetOrders ==
    /\ CanArrive
    /\ LET orders == IF useDatabase
                     THEN getOrdersDb(Query(selectOrders(db)))
                     ELSE readFileData.orders
       IN  reqs' = Append(reqs, Req("getOrders", EmptyObj, "done", Backend,
                NoFile, List(orders), ordersResponse(orders)))
    /\ IF useDatabase
       THEN UNCHANGED <<file, fileExists>>
       ELSE file' = readFileData /\ fileExists' = TRUE
    /\ UNCHANGED <<rev, dbUrl, dbUp, useDatabase, connTest, initPc, listening,
                   db, clock, clients>>

\* What updateOrderStatus returns on the relational backend, given the
\* outcome q of the UPDATE.  server.js: whether a row was updated, false
\* when the statement failed.  part_001: true unless the statement failed.
updateOrderStatusDb(r, q) ==
    IF r = "p001" THEN ~q.err ELSE (~q.err /\ Len(q.rows) > 0)

\* The response of PUT /api/orders/:id/status to what updateOrderStatus
\* returned.  part_001 does not look at it.
updateOrderStatusResponse(r, success) ==
    IF r = "p001" THEN Resp(200, [success |-> Bool(TRUE)])
    ELSE IF success
         THEN Resp(200, [success |-> Bool(TRUE),
                         message |-> Str("orderStatusUpdated")])
         ELSE Resp(404, [success |-> Bool(FALSE),
                         error |-> Str("orderNotFound")])

\* PUT /api/orders/:id/status {status}, up to the first storage access.
\* On the file backend updateOrderStatus returns at once when no order
\* has the id: false in server.js, true in part_001.
PutOrderStatus(id, status) ==
    /\ CanArrive
    /\ LET arg == [id |-> id, status |-> status]
           q == Query(updateOrderRow(rev, db, status, id, clock))
       IN  IF useDatabase
           THEN /\ reqs' = Append(reqs, Req("updateOrderStatus", arg, "done",
                        "db", NoFile, Bool(updateOrderStatusDb(rev, q)),
                        updateOrderStatusResponse(rev,
                            updateOrderStatusDb(rev, q))))
                /\ db' = q.db
                /\ UNCHANGED <<file, fileExists>>
           ELSE /\ reqs' = Append(reqs,
                        IF findIndex(readFileData.orders, id) = 0
                        THEN Req("updateOrderStatus", arg, "done", "file",
                                 NoFile, Bool(rev = "p001"),
                                 updateOrderStatusResponse(rev, rev = "p001"))
                        ELSE Req("updateOrderStatus", arg, "loaded", "file",
                                 readFileData, Undef, NoResp))
                /\ file' = readFileData
                /\ fileExists' = TRUE
                /\ UNCHANGED db
    /\ UNCHANGED <<rev, dbUrl, dbUp, useDatabase, connTest, initPc, listening,
                   clock, clients>>

\* updateOrderStatus after readFileData, on the file backend: the status
\* of the first order with the id is set on the loaded document, the
\* document is saved and updateOrderStatus returns true.
UpdateOrderStatusSave(i) ==
    /\ i \in InFlight
    /\ reqs[i].op = "updateOrderStatus"
    /\ reqs[i].pc = "loaded"
    /\ LET orders == reqs[i].data.orders
           k == findIndex(orders, reqs[i].arg.id)
           data == [reqs[i].data EXCEPT !.orders[k] =
                      Json(Spread(@, [status |-> reqs[i].arg.status]))]
       IN  /\ file' = saveFileData(data)
           /\ Finish(i, Bool(TRUE), updateOrderStatusResponse(rev, TRUE))
    /\ UNCHANGED <<rev, dbUrl, dbUp, useDatabase, connTest, initPc, listening,
                   fileExists, db, clock, clients>>

(* ---------------------------- normalisation ---------------------------- *)
\* The field mapping the program applies to a record of a kind before it
\* answers with it: formattedSettings of GET /api/settings,
\* userWithoutPassword of POST /api/login, the row mapping of part_001's
\* getProducts (server.js returns product rows as they are).
normalize(r, kind, record) ==
    CASE kind = "settings" -> settingsResponse(r, Obj(record)).body.data.o
      [] kind = "user" -> loginResponse(r, Obj(record)).body.data.o
      [] kind = "product" ->
            IF r = "p001" THEN Json(compatProduct(record)) ELSE record

\* The mapping is applied to a record.
Normalize(kind, record) ==
    /\ Len(reqs) < MaxReq
    /\ \A i \in 1..Len(reqs) : reqs[i].pc = "done"
    /\ reqs' = Append(reqs, Req("normalize",
                    [kind |-> kind, record |-> record], "once", "none",
                    NoFile, Obj(normalize(rev, kind, record)), NoResp))
    /\ UNCHANGED <<rev, dbUrl, dbUp, useDatabase, connTest, initPc, listening,
                   fileExists, file, db, clock, clients>>

\* The mapping is applied to what it returned.
NormalizeAgain(i) ==
    /\ i \in 1..Len(reqs)
    /\ reqs[i].op = "normalize"
    /\ reqs[i].pc = "once"
    /\ reqs' = [reqs EXCEPT ![i].pc = "done",
                    ![i].res = Obj(normalize(rev, reqs[i].arg.kind,
                                             reqs[i].ret.o))]
    /\ UNCHANGED <<rev, dbUrl, dbUp, useDatabase, connTest, initPc, listening,
                   fileExists, file, db, clock, clients>>

(* --------------------------- the environment --------------------------- *)
\* The usernames and passwords the clients send: the bootstrap admin and
\* one more name; the admin's password, one long enough for the register
\* route and one too short for it.
Logins ==
    {<<Str("admin"), Str("admin123")>>, <<Str("admin"), Str("secret1")>>,
     <<Str("alice"), Str("secret1")>>}
Registrations ==
    {<<Str("alice"), Str("secret1")>>, <<Str("admin"), Str("secret1")>>,
     <<Str("alice"), Str("abc")>>}

\* The object with the fields of o whose value is not undefined.
Body(o) == Json(o)

\* The product bodies the clients send: a full product with a price that
\* is zero, positive or no number, a product with a name and a price
\* only, one without a name and one without a price.
ProductBodies ==
    {Body([name |-> Str("tea"), price |-> p, description |-> Str("green"),
           image |-> Str("tea.png")]) : p \in {Num(0), Num(5), Str("abc")}}
    \cup {Body([name |-> Str("tea"), price |-> Num(5)]),
          Body([price |-> Num(5)]), Body([name |-> Str("tea")])}

\* Valid product bodies only, for runs of concurrent creates.
ValidProductBodies ==
    {Body([name |-> Str("tea"), price |-> p]) : p \in {Num(0), Num(5)}}

\* The ids the clients send in DELETE /api/products/:id (route parameters
\* are strings): an id the model generates, and one no product has.
IdParams == {Str("1"), Str("9")}

\* The settings the clients send.
SettingsBodies == {[storeName |-> Str("X")]}

\* The order bodies the clients send: the empty body, an order without a
\* number and one with the number the server makes up at clock 1.
FullOrder ==
    [userId |-> Num(1), productId |-> Num(1), productName |-> Str("tea"),
     productPrice |-> Num(5), totalAmount |-> Num(5)]
OrderBodies ==
    {EmptyObj, FullOrder,
     Spread(FullOrder, [orderNumber |-> Str("DD00000001")])}

\* The statuses the clients send in PUT /api/orders/:id/status: one of
\* pending, paid, completed, a short one outside them and a long one.
Statuses ==
    {Str("paid"), Str("shipped"), Str("awaiting-customer-pickup")}

\* The partial settings the clients send for the settings operations: a
\* new store name, an empty link and a new contact string.
SettingsUpdates ==
    {[storeName |-> Str("X")], [kuaishouLink |-> Str("")],
     [contactInfo |-> Str("C")]}

\* The records the mapping is applied to: settings as a row, as a
\* document record, with an empty link and without any field; users as a
\* row and as the document records of the two bootstrap admins and of a
\* registered user; a product row.
Records ==
    {<<"settings", [id |-> Num(1), store_name |-> Str("X"),
                    kuaishou_link |-> Str("L"), contact_info |-> Str("C"),
                    welcome_message |-> Str("W")]>>,
     <<"settings", [storeName |-> Str("X"), kuaishouLink |-> Str(""),
                    contactInfo |-> Str("C"), welcomeMessage |-> Str("W")]>>,
     <<"settings", fileDefaultSettings>>,
     <<"settings", EmptyObj>>,
     <<"user", [id |-> Num(1), username |-> Str("admin"),
                password |-> hashSync(Str("admin123")),
                is_admin |-> Bool(TRUE), created_at |-> Time(1)]>>,
     <<"user", fileAdmin("server")>>,
     <<"user", fileAdmin("p001")>>,
     <<"user", newUser("server", Str("alice"), hashSync(Str("secret1")), 1)>>,
     <<"product", [id |-> Num(1), name |-> Str("tea"), price |-> Dec(5),
                   description |-> Str("green"), image_url |-> Str("tea.png"),
                   created_at |-> Time(1)]>>}

\* Product bodies at the edge of the value ranges: a negative price, an
\* empty name, no name, and an ordinary product.
EdgeProductBodies ==
    {Body([name |-> Str("tea"), price |-> Num(-5)]),
     Body([name |-> Str(""), price |-> Num(5)]),
     Body([price |-> Num(5)]),
     Body([name |-> Str("tea"), price |-> Num(5)])}

(* --------------------------- specifications ---------------------------- *)
\* The steps of the process itself.
Startup ==
    \/ Tick
    \/ ConnTestCallback
    \/ StartServer
    \/ InitDbStep

\* Every kind of request, with one input each, while the process starts,
\* all within one tick of the clock; one request at a time or several in
\* flight.
Next ==
    \/ ConnTestCallback
    \/ StartServer
    \/ InitDbStep
    \/ PostLogin(Str("admin"), Str("admin123"))
    \/ PostRegister(Str("alice"), Str("secret1"))
    \/ \E i \in 1..MaxReq : RegisterSave(i)
    \/ GetProducts
    \/ PostProducts(Body([name |-> Str("tea"), price |-> Num(5)]))
    \/ \E i \in 1..MaxReq : AddProductSave(i)
    \/ DeleteProduct(Str("1"))
    \/ \E i \in 1..MaxReq : DeleteProductSave(i)
    \/ GetSettings
    \/ \E b \in SettingsBodies : PutSettings(b)
    \/ \E i \in 1..MaxReq : UpdateSettingsDb(i)
    \/ \E i \in 1..MaxReq : UpdateSettingsSave(i)

Spec == Init /\ [][Next]_vars

\* The file backend alone (no DATABASE_URL), the clients keeping several
\* requests in flight: product creates and listings.
InitFile ==
    /\ Init
    /\ ~dbUrl
    /\ clients = MaxClients

NextFile ==
    \/ Tick
    \/ StartServer
    \/ GetProducts
    \/ \E b \in ValidProductBodies : PostProducts(b)
    \/ \E i \in 1..MaxReq : AddProductSave(i)

SpecFile == InitFile /\ [][NextFile]_vars

\* One client that waits for each response before its next request, and
\* sends the first once the process has finished starting (the test query
\* has called back and the tables are initialised), on either backend:
\* the product operations, with every product body.
InitSequential ==
    /\ Init
    /\ clients = 1

StartupOver ==
    /\ connTest # "pending"
    /\ initPc \in {"idle", "done"}

NextProducts ==
    \/ Startup
    \/ StartupOver /\ GetProducts
    \/ StartupOver /\ \E b \in ProductBodies : PostProducts(b)
    \/ \E i \in 1..MaxReq : AddProductSave(i)
    \/ StartupOver /\ \E id \in IdParams : DeleteProduct(id)
    \/ \E i \in 1..MaxReq : DeleteProductSave(i)

SpecProducts == InitSequential /\ [][NextProducts]_vars

\* The user operations on either backend, while the process starts, with
\* one client or several.
NextUsers ==
    \/ ConnTestCallback
    \/ StartServer
    \/ InitDbStep
    \/ \E c \in Logins : PostLogin(c[1], c[2])
    \/ \E c \in Registrations : PostRegister(c[1], c[2])
    \/ \E i \in 1..MaxReq : RegisterSave(i)

SpecUsers == Init /\ [][NextUsers]_vars

\* The order operations for the sequential client, on either backend,
\* once the process has finished starting.
NextOrders ==
    \/ Startup
    \/ StartupOver /\ GetOrders
    \/ StartupOver /\ \E o \in OrderBodies : PostOrders(o)
    \/ \E i \in 1..MaxReq : AddOrderSave(i)
    \/ StartupOver /\ \E id \in IdParams, s \in Statuses : PutOrderStatus(id, s)
    \/ \E i \in 1..MaxReq : UpdateOrderStatusSave(i)

SpecOrders == InitSequential /\ [][NextOrders]_vars

\* The settings operations for the sequential client, on either backend,
\* while the process starts.
NextSettings ==
    \/ ConnTestCallback
    \/ StartServer
    \/ InitDbStep
    \/ GetSettings
    \/ \E b \in SettingsUpdates : PutSettings(b)
    \/ \E i \in 1..MaxReq : UpdateSettingsDb(i)
    \/ \E i \in 1..MaxReq : UpdateSettingsSave(i)

SpecSettings == InitSequential /\ [][NextSettings]_vars

\* The file backend alone, the sequential client: product creates,
\* registrations and listings, and listings whose read of the data file
\* fails.
InitFileSequential ==
    /\ Init
    /\ ~dbUrl
    /\ clients = 1

NextFileFaults ==
    \/ Tick
    \/ StartServer
    \/ GetProducts
    \/ GetProductsReadFails
    \/ \E b \in ValidProductBodies : PostProducts(b)
    \/ \E i \in 1..MaxReq : AddProductSave(i)
    \/ \E c \in Registrations : PostRegister(c[1], c[2])
    \/ \E i \in 1..MaxReq : RegisterSave(i)

SpecFileFaults == InitFileSequential /\ [][NextFileFaults]_vars

\* The process started again and again with DATABASE_URL set, one run
\* after the other, with logins of the admin once a run has started.
InitBootstrap ==
    /\ Init
    /\ dbUrl

NextBootstrap ==
    \/ ConnTestCallback
    \/ StartServer
    \/ InitDbStep
    \/ Restart
    \/ StartupOver /\ PostLogin(Str("admin"), Str("admin123"))

SpecBootstrap == InitBootstrap /\ [][NextBootstrap]_vars

\* The field mapping of each revision applied to a record and again to
\* its result.
InitNormalize ==
    /\ Init
    /\ ~dbUrl
    /\ clients = 1

NextNormalize ==
    \/ \E x \in Records : Normalize(x[1], x[2])
    \/ \E i \in 1..MaxReq : NormalizeAgain(i)

SpecNormalize == InitNormalize /\ [][NextNormalize]_vars

\* Product creates with the bodies at the edge of the value ranges, by
\* the sequential client once the process has finished starting.
NextEdgeProducts ==
    \/ Startup
    \/ StartupOver /\ GetProducts
    \/ StartupOver /\ \E b \in EdgeProductBodies : PostProducts(b)
    \/ \E i \in 1..MaxReq : AddProductSave(i)

SpecEdgeProducts == InitSequential /\ [][NextEdgeProducts]_vars

\* Logins, registrations and product creates once the process has
\* finished starting, one client or several, on either backend, the
\* database answering or failing.  The event loop runs the continuation
\* of every handler whose file read has completed, so the save steps are
\* weakly fair.
NextAnswers ==
    \/ ConnTestCallback
    \/ StartServer
    \/ InitDbStep
    \/ StartupOver /\ PostLogin(Str("admin"), Str("admin123"))
    \/ StartupOver /\ PostRegister(Str("alice"), Str("secret1"))
    \/ \E i \in 1..MaxReq : RegisterSave(i)
    \/ StartupOver /\ PostProducts(Body([name |-> Str("tea"),
                                          price |-> Num(5)]))
    \/ \E i \in 1..MaxReq : AddProductSave(i)

Continuation ==
    \/ \E i \in 1..MaxReq : RegisterSave(i)
    \/ \E i \in 1..MaxReq : AddProductSave(i)

SpecAnswers == Init /\ [][NextAnswers]_vars /\ WF_vars(Continuation)

(* ------------------------------- claims -------------------------------- *)
\* The requests of a kind that are over.
DoneReqs(op) == {i \in 1..Len(reqs) : reqs[i].op = op /\ reqs[i].pc = "done"}

\* C1: on the file backend, once every createProduct issued concurrently
\* has completed, the document holds exactly one more product for each
\* createProduct that returned a product: no update is lost.
NoLostProduct ==
    (fileExists /\ InFlight = {}) =>
        Len(file.products) =
            Len(initialData(rev, clock).products)
            + Cardinality({i \in DoneReqs("addProduct") :
                              reqs[i].ret.t = "obj"})

\* C2: the backend is selected once: every data-access operation of the
\* process is dispatched to the backend the first one was dispatched to.
BackendSelectedOnce ==
    \A i, j \in 1..Len(reqs) :
        (reqs[i].backend # "none" /\ reqs[j].backend # "none")
            => reqs[i].backend = reqs[j].backend

\* The fields of a record that are generated ids and timestamps.
GeneratedFields == {"id", "createdAt", "created_at", "updated_at"}

\* A record without its generated ids and timestamps.
Observable(o) == [f \in DOMAIN o \ GeneratedFields |-> o[f]]

\* What addProduct returns for a product with the relational backend
\* active (on initialised tables) and with the file backend active.
addProductOn(backend, r, product) ==
    IF addProductRejects(r, product) THEN Null
    ELSE IF backend = "db"
         THEN addProductDb(r, addProductInsert(r,
                InitStatement(r, EmptyDb, "tables", 1).db, product, 1))
         ELSE Obj(Json(newProduct(r, product, 1)))

\* C3: the record createProduct returns has the same field names and the
\* same values, up to generated ids and timestamps, as the record it
\* returns for the same input with the other backend active.
SameRecordOnBothBackends ==
    \A i \in DoneReqs("addProduct") :
        reqs[i].ret.t = "obj" =>
            LET other == addProductOn(
                            IF reqs[i].backend = "db" THEN "file" ELSE "db",
                            rev, reqs[i].arg)
            IN  /\ other.t = "obj"
                /\ Observable(Json(reqs[i].ret.o)) = Observable(other.o)

\* A product input with a non-empty name and a non-negative numeric
\* price.
ValidProduct(product) ==
    /\ Get(product, "name").t = "str"
    /\ Get(product, "name").s # ""
    /\ Get(product, "price").t = "num"
    /\ Get(product, "price").n >= 0

\* The number a price stands for, whether the backend holds it as a
\* number or as a decimal.
PriceOf(v) == IF v.t = "decimal" THEN v.d ELSE IF v.t = "num" THEN v.n ELSE -1

\* The listed record carries the submitted name, price, description and
\* image (the image under either of its names).
Carries(record, product) ==
    /\ Get(record, "name") = Get(product, "name")
    /\ PriceOf(Get(record, "price")) = Get(product, "price").n
    /\ Get(product, "description") # Undef =>
            Get(record, "description") = Get(product, "description")
    /\ Get(product, "image") # Undef =>
            Get(product, "image") \in {Get(record, "image"),
                                       Get(record, "image_url")}

\* The backend of the run answers (part_001 keeps the relational backend
\* selected when the database is down).
BackendUp == useDatabase => dbUp

\* C4: a listProducts, a createProduct with a valid input and a
\* listProducts, one after the other: the second list has exactly one
\* more record than the first, and a record of it carries the submitted
\* name, price, description and image.
CreateThenListHasOneMore ==
    \A i \in 1..(Len(reqs) - 2) :
        ( /\ BackendUp
          /\ reqs[i].op = "getProducts"
          /\ reqs[i + 1].op = "addProduct"
          /\ ValidProduct(reqs[i + 1].arg)
          /\ reqs[i + 2].op = "getProducts" )
        => /\ Len(reqs[i + 2].ret.l) = Len(reqs[i].ret.l) + 1
           /\ \E k \in 1..Len(reqs[i + 2].ret.l) :
                 Carries(reqs[i + 2].ret.l[k], reqs[i + 1].arg)

\* C5: a listProducts, a deleteProduct(id) and a listProducts, one after
\* the other: deleteProduct returns true if and only if the first list
\* had a product with that id, which the second list has lost; for an id
\* no product has it returns false and the lists have the same length.
DeleteReturnsWhetherRemoved ==
    \A i \in 1..(Len(reqs) - 2) :
        ( /\ reqs[i].op = "getProducts"
          /\ reqs[i + 1].op = "deleteProduct"
          /\ reqs[i + 1].pc = "done"
          /\ reqs[i + 2].op = "getProducts" )
        => LET existed == \E k \in 1..Len(reqs[i].ret.l) :
                            LooseEq(Get(reqs[i].ret.l[k], "id"),
                                    reqs[i + 1].arg.id)
           IN  /\ reqs[i + 1].ret = Bool(existed)
               /\ existed =>
                    Len(reqs[i + 2].ret.l) = Len(reqs[i].ret.l) - 1
               /\ ~existed =>
                    Len(reqs[i + 2].ret.l) = Len(reqs[i].ret.l)

\* No two records of a users collection have the same username.
UniqueUsernames(users) ==
    \A i, j \in 1..Len(users) :
        Get(users[i], "username") = Get(users[j], "username") => i = j

\* C6: in every reachable state, whatever the interleaving of the
\* register calls, no two user records of the store (the users of the
\* document, the rows of the users table) have the same username.
NoDuplicateUsername ==
    /\ UniqueUsernames(file.users)
    /\ UniqueUsernames(db.users)

\* Two registers of one username read the document before either saved
\* it, both returned a new user, and the document holds the username.
InterleavedRegistersDone ==
    \E i, j \in DoneReqs("register") :
        /\ i < j
        /\ reqs[i].arg.username = reqs[j].arg.username
        /\ reqs[i].backend = "file" /\ reqs[j].backend = "file"
        /\ reqs[i].ret.t = "obj" /\ reqs[j].ret.t = "obj"
        /\ userExists(file, reqs[i].arg.username)

\* The users collection of a backend: of the document as a read returns
\* it, or of the users table.
UsersOf(backend, doc, d) == IF backend = "db" THEN d.users ELSE doc.users

\* Request k is a registerUser call that returns in this step.
RegisterReturns(k) ==
    /\ k \in 1..Len(reqs')
    /\ reqs'[k].op = "register"
    /\ reqs'[k].pc = "done"
    /\ reqs'[k].backend # "none"
    /\ k \in 1..Len(reqs) => reqs[k].pc # "done"

EveryPasswordHashed ==
    /\ \A i \in 1..Len(file.users) :
          Get(file.users[i], "password").t = "bcrypt"
    /\ \A i \in 1..Len(db.users) : db.users[i].password.t = "bcrypt"

\* The document or the users table holds a registered user next to the
\* bootstrap admin.
RegisteredUserStored ==
    \/ (Len(file.users) > 1 /\ userExists(file, Str("alice")))
    \/ Len(SelectSeq(db.users, LAMBDA u : u.username = Str("alice"))) > 0

\* C9: the record a successful login or a successful register answers
\* with has no password field, and none of its fields holds the
\* plaintext password or a hash.
NoPasswordReturned ==
    \A i \in DoneReqs("login") \cup DoneReqs("register") :
        Get(reqs[i].res.body, "success") = Bool(TRUE) =>
            LET data == Get(reqs[i].res.body, "data")
            IN  /\ data.t = "obj"
                /\ "password" \notin DOMAIN data.o
                /\ \A f \in DOMAIN data.o :
                      /\ data.o[f] # reqs[i].arg.password
                      /\ data.o[f].t # "bcrypt"

\* A login and a register have both succeeded on the relational backend,
\* whose registerUser and authenticateUser return the password hash to
\* the route.
LoginAndRegisterSucceeded ==
    /\ \E i \in DoneReqs("login") :
          reqs[i].backend = "db" /\ reqs[i].ret.t = "obj"
    /\ \E i \in DoneReqs("register") :
          reqs[i].backend = "db" /\ reqs[i].ret.t = "obj"

\* The store of the active backend is bootstrapped and no user has been
\* registered since: the data file is bootstrapped by the read itself,
\* the tables once initializeDatabaseTables has run on a database that
\* is up.
FreshlyBootstrapped ==
    /\ \A j \in 1..Len(reqs) : reqs[j].op # "register"
    /\ useDatabase => (dbUp /\ initPc = "done")

\* C10: on a freshly bootstrapped store, on either backend,
\* authenticate("admin", "admin123") returns a user whose isAdmin is
\* true, and the login route answers with isAdmin true.
AdminLoginIsAdmin ==
    [][( /\ FreshlyBootstrapped
         /\ Len(reqs') = Len(reqs) + 1
         /\ reqs'[Len(reqs')].op = "login"
         /\ reqs'[Len(reqs')].arg.username = Str("admin")
         /\ reqs'[Len(reqs')].arg.password = Str("admin123") )
       => /\ reqs'[Len(reqs')].ret.t = "obj"
          /\ Get(reqs'[Len(reqs')].ret.o, "isAdmin") = Bool(TRUE)
          /\ Get(reqs'[Len(reqs')].res.body, "data").t = "obj"
          /\ Get(Get(reqs'[Len(reqs')].res.body, "data").o, "isAdmin")
                = Bool(TRUE)]_vars

\* The first request of a run was authenticate("admin", "admin123") on
\* the relational backend and it returned a user.
AdminLoggedInOnDb ==
    /\ Len(reqs) > 0
    /\ reqs[1].op = "login"
    /\ reqs[1].arg = [username |-> Str("admin"), password |-> Str("admin123")]
    /\ reqs[1].backend = "db"
    /\ reqs[1].ret.t = "obj"

\* Request k is a login that reaches authenticateUser and returns in this
\* step.
LoginReturns(k) ==
    /\ k = Len(reqs) + 1
    /\ Len(reqs') = k
    /\ reqs'[k].op = "login"
    /\ reqs'[k].backend # "none"

Either(o, camel, snake) ==
    IF camel \in DOMAIN o THEN o[camel] ELSE Get(o, snake)

\* The body of a completed createOrder had no field (server.js has
\* written the order number into it).
NoFields(order) == DOMAIN order \subseteq {"orderNumber"}

\* C12: createOrder called with no fields succeeds on either backend and
\* returns an order whose order number is "DD" followed by the last 8
\* digits of the clock, whose status is pending, whose product price and
\* total amount are 0 and whose product name is the empty string.
EmptyOrderDefaulted ==
    \A i \in DoneReqs("addOrder") :
        (NoFields(reqs[i].arg) /\ (reqs[i].backend = "db" => dbUp)) =>
            /\ reqs[i].ret # Null
            /\ \E now \in 1..MaxClock :
                  Either(reqs[i].ret.o, "orderNumber", "order_number")
                      = orderNumberAt(now)
            /\ Get(reqs[i].ret.o, "status") = Str("pending")
            /\ PriceOf(Either(reqs[i].ret.o, "productPrice", "product_price"))
                  = 0
            /\ PriceOf(Either(reqs[i].ret.o, "totalAmount", "total_amount"))
                  = 0
            /\ Either(reqs[i].ret.o, "productName", "product_name") = Str("")

\* C13: in every reachable state no two orders of a store have the same
\* order number, whether the caller supplied it or it was made from the
\* clock.
UniqueOrderNumbers ==
    /\ \A i, j \in 1..Len(file.orders) :
          Get(file.orders[i], "orderNumber") = Get(file.orders[j], "orderNumber")
              => i = j
    /\ \A i, j \in 1..Len(db.orders) :
          db.orders[i].order_number = db.orders[j].order_number => i = j

\* The orders of a store.
OrdersOf(backend, doc, d) == IF backend = "db" THEN d.orders ELSE doc.orders

\* The step in which the k-th request, an updateOrderStatus, returns.
StatusReturns(k) ==
    /\ k \in 1..Len(reqs')
    /\ reqs'[k].op = "updateOrderStatus"
    /\ reqs'[k].pc = "done"
    /\ k \in 1..Len(reqs) => reqs[k].pc # "done"

\* C14: for every existing order and every status s, inside or outside
\* pending, paid, completed, setOrderStatus(id, s) returns true and
\* afterwards the stored status of that order is s; no other order
\* changes.
AnyStatusIsStored ==
    [][\A k \in 1..MaxReq :
          StatusReturns(k) =>
            LET b == reqs'[k].backend
                id == reqs'[k].arg.id
                before == OrdersOf(b, readFileData, db)
                after == OrdersOf(b, file', db')
            IN  ( /\ b = "db" => dbUp
                  /\ \E n \in 1..Len(before) :
                        LooseEq(Get(before[n], "id"), id) ) =>
                    /\ reqs'[k].ret = Bool(TRUE)
                    /\ Len(after) = Len(before)
                    /\ \A n \in 1..Len(before) :
                          IF LooseEq(Get(before[n], "id"), id)
                          THEN Get(after[n], "status") = reqs'[k].arg.status
                          ELSE after[n] = before[n]]_vars

\* The four fields of the settings.
SettingsFields == {"storeName", "kuaishouLink", "contactInfo", "welcomeMessage"}

\* The settings a completed getSettings request answered with.
Answered(i) == reqs[i].res.body.data.o

\* C15: a getSettings, an updateSettings with a partial update and a
\* getSettings, one after the other on one backend: each field present in
\* the partial is returned with the partial's value (an empty string
\* included) and each absent field with the value it had before.
UpdateIsShallowMerge ==
    \A i \in 1..(Len(reqs) - 2) :
        ( /\ BackendUp
          /\ reqs[i].op = "getSettings"
          /\ reqs[i + 1].op = "updateSettings"
          /\ reqs[i + 2].op = "getSettings"
          /\ reqs[i + 2].pc = "done"
          /\ reqs[i].backend = reqs[i + 1].backend
          /\ reqs[i + 1].backend = reqs[i + 2].backend ) =>
            \A f \in SettingsFields :
                Get(Answered(i + 2), f) =
                    IF f \in DOMAIN reqs[i + 1].arg
                    THEN reqs[i + 1].arg[f]
                    ELSE Get(Answered(i), f)

\* The column of the settings table that holds a field.
Column ==
    [storeName |-> "store_name", kuaishouLink |-> "kuaishou_link",
     contactInfo |-> "contact_info", welcomeMessage |-> "welcome_message"]

\* What the record getSettings read holds for field f: undefined without
\* a record.
StoredField(i, f) ==
    IF reqs[i].ret = Null THEN Undef ELSE Either(reqs[i].ret.o, f, Column[f])

\* The record request i read was created by the updateSettings just
\* before it, from a partial update without field f, when the store held
\* no record.
CreatedWithout(i, f) ==
    /\ i > 1
    /\ reqs[i - 1].op = "updateSettings"
    /\ reqs[i - 1].backend = "db"
    /\ reqs[i].backend = "db"
    /\ ~hasExisting(rev, reqs[i - 1].data.settings)
    /\ f \notin DOMAIN reqs[i - 1].arg

\* Field f is missing from the record getSettings read: the record does
\* not have it, or has it NULL, or was created without it (the INSERT of
\* updateSettings writes '' for a field the caller did not give).
MissingField(i, f) ==
    \/ StoredField(i, f) \in {Undef, Null}
    \/ CreatedWithout(i, f) /\ StoredField(i, f) = Str("")

CreatedAt(record) == Either(record, "createdAt", "created_at").at

\* C17: listProducts and listOrders return records most-recent-first on
\* either backend: a record created later stands in the returned sequence
\* before every record created earlier.
ListedMostRecentFirst ==
    \A i \in DoneReqs("getProducts") \cup DoneReqs("getOrders") :
        \A a, b \in 1..Len(reqs[i].ret.l) :
            CreatedAt(reqs[i].ret.l[a]) > CreatedAt(reqs[i].ret.l[b]) => a < b

\* The step in which the k-th request, a createProduct, returns.
AddProductReturns(k) ==
    /\ k \in 1..Len(reqs')
    /\ reqs'[k].op = "addProduct"
    /\ reqs'[k].pc = "done"
    /\ k \in 1..Len(reqs) => reqs[k].pc # "done"

\* The input has no name, no price or a price that is no number.
InvalidProduct(product) ==
    \/ Get(product, "name") = Undef
    \/ Get(product, "price") = Undef
    \/ isNaN(parseFloat(Get(product, "price")))

\* C18: createProduct with a missing name, a missing price or a
\* non-numeric price reports a failure to the caller and stores no
\* product: the products of the store are unchanged.
InvalidProductRefused ==
    [][\A k \in 1..MaxReq :
          (AddProductReturns(k) /\ InvalidProduct(reqs'[k].arg)) =>
              /\ reqs'[k].res.body.success = Bool(FALSE)
              /\ db'.products = db.products
              /\ file'.products = readFileData.products]_vars

\* The read of the products fails on backend b: the SELECT is rejected,
\* or the data file cannot be read (it is not there).
ReadFails(b) ==
    IF b = "db" THEN Query(selectProducts(db)).err ELSE ~fileExists

\* C19: listProducts never reports an error, and when the backend read
\* fails it returns the empty sequence.
FailedReadListsNothing ==
    [][\A k \in 1..MaxReq :
          ( /\ k = Len(reqs) + 1
            /\ Len(reqs') = k
            /\ reqs'[k].op = "getProducts" ) =>
              /\ reqs'[k].res.status = 200
              /\ reqs'[k].res.body.success = Bool(TRUE)
              /\ ReadFails(reqs'[k].backend) => reqs'[k].ret = List(<<>>)]_vars

\* C20: with a connection string (DATABASE_URL) configured every data
\* operation is dispatched to the relational driver, without one to the
\* file driver.
DriverFollowsConnectionString ==
    \A i \in 1..Len(reqs) :
        reqs[i].backend # "none" =>
            reqs[i].backend = IF dbUrl THEN "db" ELSE "file"

\* C21: on the file backend the bootstrap admin and the default settings
\* are written only when the data file does not exist yet: once it
\* exists, no step replaces its contents with the bootstrap defaults.
DefaultsWrittenOnlyOnce ==
    [][(fileExists /\ file' # file) =>
            \A now \in 1..MaxClock : file' # initialData(rev, now)]_vars

\* C22: relational bootstrap is idempotent: after any number of runs one
\* after the other the users table holds exactly one row with username
\* admin, with the password hash and the admin flag of the first seeding,
\* and the settings table holds exactly one row.
BootstrapIdempotent ==
    (dbUp /\ initPc = "done") =>
        /\ countAdmin(db) = 1
        /\ \A i \in 1..Len(db.users) :
              db.users[i].username = Str("admin") =>
                  /\ db.users[i].id = Num(1)
                  /\ db.users[i].password = Hash("admin123")
                  /\ db.users[i].is_admin = Bool(TRUE)
        /\ Len(db.settings) = 1

\* The bootstrap has run to its end a second time.
BootstrapRanAgain ==
    /\ dbUp
    /\ initPc = "done"
    /\ clock > 1

\* The stored users with the username of request i, in the store the
\* request ran on.
StoredUsers(i) ==
    SelectSeq(UsersOf(reqs[i].backend, file, db),
              LAMBDA u : Get(u, "username") = reqs[i].arg.username)

BootstrapBeforeTraffic ==
    [][\A k \in 1..MaxReq :
          ( /\ k = Len(reqs) + 1
            /\ Len(reqs') = k
            /\ reqs'[k].backend = "db" ) => initPc = "done"]_vars

\* C26: setOrderStatus on an id that matches no order returns false,
\* leaves every stored order unchanged and is reported to the caller as
\* a failure, distinctly from a success response.
AbsentOrderNotFound ==
    [][\A k \in 1..MaxReq :
          ( /\ StatusReturns(k)
            /\ \A n \in 1..Len(OrdersOf(reqs'[k].backend, readFileData, db)) :
                  ~LooseEq(Get(OrdersOf(reqs'[k].backend, readFileData,
                                        db)[n], "id"),
                           reqs'[k].arg.id) ) =>
              /\ reqs'[k].ret = Bool(FALSE)
              /\ reqs'[k].res.body.success = Bool(FALSE)
              /\ OrdersOf(reqs'[k].backend, file', db')
                    = OrdersOf(reqs'[k].backend, readFileData, db)]_vars

\* The step in which POST /api/register answers the k-th request,
\* whether or not registerUser was called.
RegisterAnswered(k) ==
    /\ k \in 1..Len(reqs')
    /\ reqs'[k].op = "register"
    /\ reqs'[k].pc = "done"
    /\ k \in 1..Len(reqs) => reqs[k].pc # "done"

\* C27: a register request with a password shorter than 6 characters is
\* rejected and creates no user: the users of the store are unchanged.
ShortPasswordRefused ==
    [][\A k \in 1..MaxReq :
          (RegisterAnswered(k) /\ Len(reqs'[k].arg.password.s) < 6) =>
              /\ reqs'[k].res.body.success = Bool(FALSE)
              /\ db'.users = db.users
              /\ file'.users = readFileData.users]_vars

\* C28: in every reachable state every product in the store has a
\* non-empty name and a non-negative price.
StoredProductsWellFormed ==
    /\ \A i \in 1..Len(file.products) :
          /\ Truthy(Get(file.products[i], "name"))
          /\ PriceOf(Get(file.products[i], "price")) >= 0
    /\ \A i \in 1..Len(db.products) :
          /\ Truthy(db.products[i].name)
          /\ PriceOf(db.products[i].price) >= 0

\* C29: every storage-layer failure is surfaced to the caller as a
\* generic failure response: when the INSERT of addOrder failed, the
\* response says success false and carries a fixed error text, nothing of
\* the backend's error.
StorageFailureSurfaced ==
    \A i \in DoneReqs("addOrder") :
        (reqs[i].backend = "db" /\ reqs[i].ret = Null) =>
            /\ reqs[i].res.body.success = Bool(FALSE)
            /\ DOMAIN reqs[i].res.body = {"success", "error"}
            /\ reqs[i].res.body.error = Str("createOrderFailed")

\* C30: on the file backend, whenever createProduct reports success to
\* the caller, the persisted document contains the product it returned,
\* also when the backend flag changed between the load and the persist
\* step of the operation.
ReportedProductPersisted ==
    [][\A k \in 1..MaxReq :
          ( /\ AddProductReturns(k)
            /\ reqs'[k].backend = "file"
            /\ reqs'[k].res.body.success = Bool(TRUE) ) =>
              \E n \in 1..Len(file'.products) :
                  file'.products[n] = Json(reqs'[k].ret.o)]_vars

\* The step in which the k-th request, an updateSettings on the file
\* backend, returns.
SettingsSaved(k) ==
    /\ k \in 1..Len(reqs)
    /\ reqs[k].op = "updateSettings"
    /\ reqs[k].backend = "file"
    /\ reqs[k].pc = "loaded"
    /\ reqs'[k].pc = "done"

\* C31: on the file backend a mutation of one collection does not remove
\* or revert a concurrent mutation of another collection: the save of an
\* updateSettings leaves the persisted products and users as they are,
\* and the save of a createProduct leaves the persisted settings and
\* users as they are.
OtherCollectionsKept ==
    [][\A k \in 1..MaxReq :
          /\ SettingsSaved(k) =>
                /\ file'.products = file.products
                /\ file'.users = file.users
          /\ (AddProductReturns(k) /\ reqs'[k].backend = "file") =>
                /\ file'.settings = file.settings
                /\ file'.users = file.users]_vars

\* C32: in every reachable state the relational store holds at most one
\* settings record.
SingleSettingsRecord == countSettings(db) <= 1

\* C33: on the file backend no two products of the persisted document
\* have the same id and no two orders have the same id.
UniqueFileIds ==
    fileExists =>
        /\ \A a, b \in 1..Len(file.products) :
              Get(file.products[a], "id") = Get(file.products[b], "id")
                  => a = b
        /\ \A a, b \in 1..Len(file.orders) :
              Get(file.orders[a], "id") = Get(file.orders[b], "id") => a = b

\* The user record u carries the admin flag under either of its names.
IsAdmin(u) == Truthy(Get(u, "isAdmin")) \/ Truthy(Get(u, "is_admin"))

\* The user record u is the admin the startup creates: admin / admin123.
BootstrapAdmin(u) ==
    /\ Get(u, "username") = Str("admin")
    /\ Get(u, "password") = hashSync(Str("admin123"))

\* C34: no sequence of API operations creates a user with the admin flag
\* set or changes the flag of an existing user: in either store the only
\* user with the flag is the admin the startup created, and every user
\* register created and returned has the flag false.
OnlyBootstrapAdmin ==
    /\ \A n \in 1..Len(db.users) :
          IsAdmin(db.users[n]) => BootstrapAdmin(db.users[n])
    /\ fileExists =>
          \A n \in 1..Len(file.users) :
              IsAdmin(file.users[n]) => BootstrapAdmin(file.users[n])
    /\ \A i \in DoneReqs("register") :
          reqs[i].res.body.success = Bool(TRUE) =>
              /\ ~IsAdmin(reqs[i].ret.o)
              /\ \A n \in 1..Len(StoredUsers(i)) :
                    BootstrapAdmin(StoredUsers(i)[n])
                        \/ ~IsAdmin(StoredUsers(i)[n])

\* A user has registered on the relational backend next to the stored
\* admin.
RegisteredNextToAdmin ==
    \E i \in DoneReqs("register") :
        /\ reqs[i].res.body.success = Bool(TRUE)
        /\ reqs[i].backend = "db"
        /\ StoredUsers(i) # <<>>
        /\ ~IsAdmin(StoredUsers(i)[1])
        /\ \E n \in 1..Len(db.users) : IsAdmin(db.users[n])

\* The step in which DELETE /api/products/:id answers the k-th request.
DeleteAnswered(k) ==
    /\ k \in 1..Len(reqs')
    /\ reqs'[k].op = "deleteProduct"
    /\ reqs'[k].pc = "done"
    /\ k \in 1..Len(reqs) => reqs[k].pc # "done"

\* The products of a backend: of the document as a read returns it, or
\* of the products table.
ProductsOf(backend, doc, d) ==
    IF backend = "db" THEN d.products ELSE doc.products

\* C35: a backend failure is never reported as a domain outcome:
\* deleteProduct is answered with 'not found' only when no product of the
\* store has the id, and register is answered with 'username already
\* exists' only when a user of the store has the username.
DomainOutcomesAreTrue ==
    [][\A k \in 1..MaxReq :
          /\ ( /\ RegisterAnswered(k)
               /\ Get(reqs'[k].res.body, "error") = Str("usernameExists") ) =>
                \E n \in 1..Len(UsersOf(reqs'[k].backend, readFileData, db)) :
                    Get(UsersOf(reqs'[k].backend, readFileData, db)[n],
                        "username") = reqs'[k].arg.username
          /\ ( /\ DeleteAnswered(k)
               /\ Get(reqs'[k].res.body, "error") = Str("productNotFound") ) =>
                \A n \in 1..Len(ProductsOf(reqs'[k].backend, readFileData,
                                           db)) :
                    ~LooseEq(Get(ProductsOf(reqs'[k].backend, readFileData,
                                            db)[n], "id"),
                             reqs'[k].arg.id)]_vars

\* The step in which the k-th request, one of the read operations
\* (listProducts, listOrders, getSettings, authenticate), is answered.
ReadAnswered(k) ==
    /\ k \in 1..Len(reqs')
    /\ reqs'[k].op \in {"getProducts", "getOrders", "getSettings", "login"}
    /\ reqs'[k].pc = "done"
    /\ k \in 1..Len(reqs) => reqs[k].pc # "done"

\* C36: when the store already exists, a read operation leaves it
\* unchanged: the document in the data file and the tables are after the
\* operation what they were before it, so authenticate writes no
\* last-login timestamp.
ReadsChangeNothing ==
    [][\A k \in 1..MaxReq :
          ReadAnswered(k) =>
              /\ db' = db
              /\ fileExists => file' = file]_vars

\* C37: every API request eventually receives exactly one response,
\* whether its backend call resolves or fails: a request that has arrived
\* is answered in the end, its answer is a response with a status, and an
\* answered request is not answered again.
EveryRequestAnsweredOnce ==
    /\ \A k \in 1..MaxReq :
          (Len(reqs) >= k)
              ~> (Len(reqs) >= k /\ reqs[k].pc = "done"
                                /\ reqs[k].res # NoResp)
    /\ [][\A k \in 1..Len(reqs) :
             reqs[k].pc = "done" =>
                 /\ reqs[k].res # NoResp
                 /\ reqs'[k] = reqs[k]]_vars

\* Requests whose backend call failed have been answered, one after the
\* other had arrived.
FailedCallsAnswered ==
    /\ InFlight = {}
    /\ \E k \in DoneReqs("register") :
          reqs[k].backend = "db" /\ reqs[k].ret = Null
    /\ \E k \in DoneReqs("addProduct") :
          reqs[k].backend = "db" /\ reqs[k].ret = Null
====
